---- MODULE Spec2Model ----
(***************************************************************************)
(* Retrieval pipeline of the RAG service: vector store, retrievers,        *)
(* rerankers and compressors (rag-agent/src/rag/retrieval).                *)
(*                                                                         *)
(* Python values are encoded as follows.  A dict is a function from key    *)
(* strings to values; a list is a sequence; None for an optional integer   *)
(* is the value NoneInt (-1), which no caller of the model passes as a     *)
(* number.  Floating point scores are integers in tenths (0.9 is 9).       *)
(***************************************************************************)
EXTENDS Integers, Sequences, FiniteSets, TLC

\* ------------------------------------------------------------------------
\* Bounds of the model
\* ------------------------------------------------------------------------
\* number of add_context calls explored (the test adds 12 turns)
MaxContextAdds == 12

\* conversation turns
Messages == {"m1", "m2"}

\* point ids the backing store can hand out (uuid4 values, ordered as the
\* store orders them when scrolling); also the most points the store holds
MaxIds == 4

\* most chunks in one add_documents call
MaxChunks == 2

\* parent document ids
DocIds == {"d1", "d2"}

\* chunk texts
Texts == {"a", "b"}

\* similarity of a query to the chunk texts as the backing store reports it,
\* in tenths: either text can be the closer one
Sims == {[a |-> 8, b |-> 3], [a |-> 3, b |-> 8]}

\* most passages handed to a reranker or compressor
MaxDocs == 3

\* most pieces in a passage text whose every composition is tried
MaxSentences == 3

\* scores the cross-encoder model reports, in tenths
ModelScores == {5, 7, 9}

\* relevance scores of the rerank service, in tenths
ServiceScores == {5, 9}

\* entries of an answer of the rerank service
MaxResults == 2

\* the results of one answer of VectorStore.search
MaxHits == 3

\* most characters of a text handed to the chunker
MaxTextLen == 5

\* the characters of such a text: a letter, a full stop, a blank, a line
\* break and, written "^", the control character NUL
TextChars == {"a", ".", " ", "\n", "^"}

\* most steps of a workflow handed to the orchestrator
MaxSteps == 2

\* most lines of a code handed to the code chunker
MaxLines == 4

\* the lines of such a code, of 0, 1, 2 and 5 characters
CodeLines == {"", "x", "ab", "hello"}

\* largest max_iterations a RAG agent is configured with
MaxIterations == 5

\* most runs of the extract_data node followed in one run of the data-entry agent
MaxExtracts == 5

\* largest max_history a conversational chain is constructed with
MaxHistory == 2

\* most messages of a chat history that is followed
MaxMessages == 6

\* most tokens of a streamed answer
MaxTokens == 2

\* ------------------------------------------------------------------------
\* Program constants
\* ------------------------------------------------------------------------
\* retriever.py:252-253  len(...) > 10, [-10:]
CONTEXT_LIMIT == 10

\* vector_store.py:251  delete_document scrolls one page, limit=1000.
\* vector_store.py:294  list_documents scrolls one page, limit=1000.
\* vector_store.py:331  count_documents scrolls one page, limit=10000.
\* The page sizes are scaled down (1000 -> 2, 10000 -> 3), keeping their
\* order, so that a store of MaxIds points can exceed each of them.
DELETE_SCROLL_LIMIT == 2

LIST_SCROLL_LIMIT == 2

COUNT_SCROLL_LIMIT == 3

\* None for an optional integer argument
NoneInt == -1

VARIABLES
    conversation_context,   \* ContextualRetriever.conversation_context
    added,                  \* history: every message passed to add_context, in order
    qdrant_host,            \* settings.qdrant_host: "memory" or "remote"
    client,                 \* VectorStore._client: "none" or "set"
    embeddings,             \* VectorStore._embeddings: "none" or "set"
    collection,             \* the "documents" collection exists in the backing store
    points,                 \* the points of the collection
    init_ok,                \* history: some initialize() call has completed
    last,                   \* history: the last store operation and what it did
    rerankers,              \* the reranker objects: top_k and lazily built model/client
    compressors,            \* the compressor objects: settings and lazily built clients
    out,                    \* history: the last rerank or compress call and what it did
    retrievers,             \* the retriever objects: their settings
    ret,                    \* history: the last retrieve call and what it did
    chunker,                \* the TextChunker object: chunk_size and chunk_overlap
    input_text,             \* the text handed to the chunker
    chunked,                \* history: the last chunker call and what it returned
    code_chunker,           \* the CodeChunker object: chunk_size and chunk_overlap
    code_lines,             \* the lines of the code handed to the code chunker
    code_chunked,           \* history: the last code chunker call and what it returned
    agents,                 \* AgentOrchestrator._agents: the agent types with an agent built
    workflow,               \* the workflow handed to the orchestrator, and what its agents do
    orch_out,               \* history: the last orchestrator call and what it did
    rag_config,             \* RAGAgent.config: max_iterations
    rag_state,              \* the AgentState of the RAG agent's graph
    rag_node,               \* the node the RAG agent's graph runs next
    rag_executed,           \* history: retrieve, generate and refine nodes run in this run
    entry_state,            \* the state of the data-entry agent's graph
    entry_node,             \* the node the data-entry agent's graph runs next
    entry_extracts,         \* history: runs of the extract_data node in this run
    chat_history,           \* ConversationalRAGChain.chat_history
    max_history,            \* ConversationalRAGChain.max_history
    streaming               \* the stream() generator that is open, if one is

ctxVars == <<conversation_context, added>>

storeVars == <<qdrant_host, client, embeddings, collection, points, init_ok, last>>

rerankVars == <<rerankers, compressors, out>>

retrVars == <<retrievers, ret>>

ingestVars == <<chunker, input_text, chunked>>

codeVars == <<code_chunker, code_lines, code_chunked>>

\* the retrieval and ingestion library of the service
libVars == <<ctxVars, storeVars, rerankVars, retrVars, ingestVars>>

orchVars == <<agents, workflow, orch_out>>

ragVars == <<rag_config, rag_state, rag_node, rag_executed>>

entryVars == <<entry_state, entry_node, entry_extracts>>

chainVars == <<chat_history, max_history, streaming>>

\* the agent graphs and the conversational chain
agentVars == <<ragVars, entryVars, chainVars>>

\* what is built on the library
appVars == <<codeVars, orchVars, agentVars>>

vars == <<conversation_context, added, qdrant_host, client, embeddings,
          collection, points, init_ok, last, rerankers, compressors, out,
          retrievers, ret, chunker, input_text, chunked,
          code_chunker, code_lines, code_chunked, agents, workflow, orch_out,
          rag_config, rag_state, rag_node, rag_executed,
          entry_state, entry_node, entry_extracts,
          chat_history, max_history, streaming>>

\* ------------------------------------------------------------------------
\* Python helpers
\* ------------------------------------------------------------------------
Min(a, b) == IF a <= b THEN a ELSE b

Max(a, b) == IF a >= b THEN a ELSE b

\* s[-n:] for n > 0
LastN(s, n) == IF Len(s) <= n THEN s ELSE SubSeq(s, Len(s) - n + 1, Len(s))

\* s[:n] for n >= 0
FirstN(s, n) == SubSeq(s, 1, Min(n, Len(s)))

\* the places of 1..n that are in the set places, in ascending order
RECURSIVE PlacesKept(_, _)
PlacesKept(n, places) ==
    IF n = 0 THEN <<>>
    ELSE IF n \in places THEN Append(PlacesKept(n - 1, places), n)
    ELSE PlacesKept(n - 1, places)

\* the entries of a sequence at the places of the set places, in ascending order of place
AtPlaces(s, places) ==
    LET kept == PlacesKept(Len(s), places)
    IN  [m \in 1..Len(kept) |-> s[kept[m]]]

\* ------------------------------------------------------------------------
\* ContextualRetriever
\* ------------------------------------------------------------------------
InitContext ==
    /\ conversation_context = <<>>
    /\ added = <<>>

\* mutant of AddContextBuffer: truncation keeps the oldest entries
AddContextBuffer_KeepOldest(ctx, message) ==
    LET appended == Append(ctx, message)
    IN  IF Len(appended) > CONTEXT_LIMIT
        THEN FirstN(appended, CONTEXT_LIMIT)
        ELSE appended

\* the buffer after add_context(message)
AddContextBuffer(ctx, message) ==
    LET appended == Append(ctx, message)
    IN  IF Len(appended) > CONTEXT_LIMIT
        THEN LastN(appended, CONTEXT_LIMIT)
        ELSE appended

add_context(message) ==
    /\ Len(added) < MaxContextAdds
    /\ conversation_context' = AddContextBuffer(conversation_context, message)
    /\ added' = Append(added, message)

AddContext ==
    /\ \E message \in Messages : add_context(message)
    /\ UNCHANGED <<storeVars, rerankVars, retrVars, ingestVars, appVars>>

\* ------------------------------------------------------------------------
\* Python dicts
\* ------------------------------------------------------------------------
EmptyDict == [k \in {} |-> ""]

\* d.get(k, default)
Get(d, k, default) == IF k \in DOMAIN d THEN d[k] ELSE default

\* {**a, **b}, a.update(b)
DictUpdate(a, b) ==
    [k \in (DOMAIN a) \cup (DOMAIN b) |-> IF k \in DOMAIN b THEN b[k] ELSE a[k]]

\* {k: v for k, v in d.items() if k != key}
DictWithout(d, key) == [k \in (DOMAIN d) \ {key} |-> d[k]]

Range(s) == {s[i] : i \in DOMAIN s}

\* ------------------------------------------------------------------------
\* VectorStore: the backing store (Qdrant)
\* ------------------------------------------------------------------------
Ids == 1..MaxIds

\* the points of S in the order the store scrolls them (by point id)
RECURSIVE SortById(_)
SortById(S) ==
    IF S = {} THEN <<>>
    ELSE LET p == CHOOSE x \in S : \A y \in S : x.id <= y.id
         IN  <<p>> \o SortById(S \ {p})

\* client.scroll(..., limit=limit)[0]: one page of the matching points
Scroll(S, limit) == FirstN(SortById(S), limit)

\* a store call can fail in transit only when the store is a remote service
StoreFailures == IF qdrant_host = "remote" THEN {"store"} ELSE {}

\* what an operation did, recorded for the properties
Report(op, args, outcome, result, embed_calls, store_calls, upserts) ==
    [op |-> op, args |-> args, outcome |-> outcome, result |-> result,
     embed_calls |-> embed_calls, store_calls |-> store_calls,
     upserts |-> upserts,
     pre_points |-> points, pre_collection |-> collection,
     pre_init_ok |-> init_ok]

InitStore ==
    /\ qdrant_host \in {"memory", "remote"}
    /\ client = "none"
    /\ embeddings = "none"
    \* a remote service may already hold the collection
    /\ collection \in (IF qdrant_host = "remote" THEN BOOLEAN ELSE {FALSE})
    /\ points = {}
    /\ init_ok = FALSE
    /\ last = [op |-> "none", args |-> EmptyDict, outcome |-> "ok",
               result |-> 0, embed_calls |-> 0, store_calls |-> <<>>,
               upserts |-> <<>>, pre_points |-> {},
               pre_collection |-> collection, pre_init_ok |-> FALSE]

\* VectorStore.initialize with _ensure_collection
initialize(fail) ==
    LET \* QdrantClient(":memory:") is a new, empty store of its own
        fresh == qdrant_host = "memory"
        collection0 == IF fresh THEN FALSE ELSE collection
        points0 == IF fresh THEN {} ELSE points
    IN  /\ client' = "set"
        /\ embeddings' = "set"
        /\ UNCHANGED qdrant_host
        /\ IF fail = "store"
           THEN \* get_collections raises; _ensure_collection re-raises
                /\ collection' = collection0
                /\ points' = points0
                /\ init_ok' = init_ok
                /\ last' = Report("initialize", EmptyDict, "store_error", 0, 0,
                                  <<"get_collections">>, <<>>)
           ELSE IF ~collection0
           THEN /\ collection' = TRUE
                /\ points' = points0
                /\ init_ok' = TRUE
                /\ last' = Report("initialize", EmptyDict, "ok", 0, 0,
                                  <<"get_collections", "create_collection">>, <<>>)
           ELSE /\ collection' = collection0
                /\ points' = points0
                /\ init_ok' = TRUE
                /\ last' = Report("initialize", EmptyDict, "ok", 0, 0,
                                  <<"get_collections">>, <<>>)

Initialize ==
    /\ \E fail \in {"none"} \cup StoreFailures : initialize(fail)
    /\ UNCHANGED <<ctxVars, retrVars, rerankVars, ingestVars, appVars>>

\* ------------------------------------------------------------------------
\* VectorStore.add_documents
\* ------------------------------------------------------------------------
\* mutant of PointPayload: chunk_index counts from 1
PointPayload_IndexFromOne(doc, doc_id, i, metadata) ==
    DictUpdate(
        DictUpdate([doc_id |-> doc_id, content |-> doc.page_content,
                    chunk_index |-> i + 1],
                   doc.metadata),
        metadata)

\* point_metadata of chunk i (0-based)
PointPayload(doc, doc_id, i, metadata) ==
    DictUpdate(
        DictUpdate([doc_id |-> doc_id, content |-> doc.page_content,
                    chunk_index |-> i],
                   doc.metadata),
        metadata)

\* the PointStructs of one call; the vector is the embedding of the chunk
\* text and is represented by that text
BuildPoints(documents, doc_id, metadata, chunk_ids) ==
    [j \in 1..Len(documents) |->
        [id |-> chunk_ids[j],
         vector |-> documents[j].page_content,
         payload |-> PointPayload(documents[j], doc_id, j - 1, metadata)]]

\* client.upsert: points with the ids of the batch are replaced
Upsert(S, batch) ==
    {p \in S : \A j \in DOMAIN batch : batch[j].id # p.id} \cup Range(batch)

\* uuid4(): ids that no stored point has, pairwise different
FreshIds(n) ==
    LET free == Ids \ {p.id : p \in points}
    IN  {f \in [1..n -> free] : \A i, j \in 1..n : i # j => f[i] # f[j]}

add_documents(documents, doc_id, metadata, chunk_ids, fail) ==
    LET args == [documents |-> documents, doc_id |-> doc_id, metadata |-> metadata]
        batch == BuildPoints(documents, doc_id, metadata, chunk_ids)
    IN  /\ UNCHANGED <<qdrant_host, client, embeddings, collection, init_ok>>
        /\ IF client = "none" \/ embeddings = "none"
           THEN /\ points' = points
                /\ last' = Report("add", args, "not_initialized", <<>>, 0, <<>>, <<>>)
           ELSE IF documents = <<>>
           THEN /\ points' = points
                /\ last' = Report("add", args, "ok", <<>>, 0, <<>>, <<>>)
           ELSE IF fail = "embed"
           THEN \* aembed_documents raises
                /\ points' = points
                /\ last' = Report("add", args, "embedding_error", <<>>, 1, <<>>, <<>>)
           ELSE IF fail = "store" \/ ~collection
           THEN \* upsert raises
                /\ points' = points
                /\ last' = Report("add", args, "store_error", <<>>, 1,
                                  <<"upsert">>, <<batch>>)
           ELSE /\ points' = Upsert(points, batch)
                /\ last' = Report("add", args, "ok", chunk_ids, 1,
                                  <<"upsert">>, <<batch>>)

\* ------------------------------------------------------------------------
\* VectorStore.search
\* ------------------------------------------------------------------------
\* models.Filter(must=[FieldCondition(key, MatchValue(value)) ...])
MatchesFilter(payload, filter_metadata) ==
    \A k \in DOMAIN filter_metadata :
        k \in DOMAIN payload /\ payload[k] = filter_metadata[k]

\* the hits of client.search in the order the store reports them: by
\* descending score; sim gives the similarity of the query to each vector
RECURSIVE SortByScore(_, _)
SortByScore(S, sim) ==
    IF S = {} THEN <<>>
    ELSE LET p == CHOOSE x \in S : \A y \in S :
                      \/ sim[x.vector] > sim[y.vector]
                      \/ sim[x.vector] = sim[y.vector] /\ x.id <= y.id
         IN  <<p>> \o SortByScore(S \ {p}, sim)

ClientSearch(S, sim, limit, filter_metadata, score_threshold) ==
    LET hits == {p \in S :
                    /\ MatchesFilter(p.payload, filter_metadata)
                    /\ score_threshold # NoneInt => sim[p.vector] >= score_threshold}
    IN  FirstN(SortByScore(hits, sim), limit)

\* formatted_results
FormatResults(results, sim) ==
    [j \in 1..Len(results) |->
        [content |-> Get(results[j].payload, "content", ""),
         score |-> sim[results[j].vector],
         metadata |-> DictWithout(results[j].payload, "content")]]

search(query, top_k, filter_metadata, score_threshold, sim, fail) ==
    LET args == [query |-> query, top_k |-> top_k,
                 filter_metadata |-> filter_metadata,
                 score_threshold |-> score_threshold]
    IN  /\ UNCHANGED <<qdrant_host, client, embeddings, collection, points, init_ok>>
        /\ IF client = "none" \/ embeddings = "none"
           THEN last' = Report("search", args, "not_initialized", <<>>, 0, <<>>, <<>>)
           ELSE IF fail = "embed"
           THEN last' = Report("search", args, "embedding_error", <<>>, 1, <<>>, <<>>)
           ELSE IF fail = "store" \/ ~collection
           THEN last' = Report("search", args, "store_error", <<>>, 1, <<"search">>, <<>>)
           ELSE last' = Report("search", args, "ok",
                               FormatResults(ClientSearch(points, sim, top_k,
                                                          filter_metadata,
                                                          score_threshold), sim),
                               1, <<"search">>, <<>>)

\* ------------------------------------------------------------------------
\* VectorStore.delete_document
\* ------------------------------------------------------------------------
\* point_ids: the ids on the one page scrolled with the doc_id filter
DeletePointIds(S, doc_id) ==
    LET page == Scroll({p \in S : MatchesFilter(p.payload, [doc_id |-> doc_id])},
                       DELETE_SCROLL_LIMIT)
    IN  [j \in 1..Len(page) |-> page[j].id]

delete_document(doc_id, fail) ==
    LET args == [doc_id |-> doc_id]
        point_ids == DeletePointIds(points, doc_id)
    IN  /\ UNCHANGED <<qdrant_host, client, embeddings, collection, init_ok>>
        /\ IF client = "none"
           THEN /\ points' = points
                /\ last' = Report("delete", args, "not_initialized", 0, 0, <<>>, <<>>)
           ELSE IF fail = "store" \/ ~collection
           THEN \* scroll raises
                /\ points' = points
                /\ last' = Report("delete", args, "store_error", 0, 0, <<"scroll">>, <<>>)
           ELSE IF point_ids # <<>>
           THEN /\ points' = {p \in points : p.id \notin Range(point_ids)}
                /\ last' = Report("delete", args, "ok", Len(point_ids), 0,
                                  <<"scroll", "delete">>, <<>>)
           ELSE /\ points' = points
                /\ last' = Report("delete", args, "ok", 0, 0, <<"scroll">>, <<>>)

\* ------------------------------------------------------------------------
\* VectorStore.list_documents and count_documents
\* ------------------------------------------------------------------------
\* payload.get("doc_id"); None and "" are both falsy and written ""
PayloadDocId(p) == Get(p.payload, "doc_id", "")

\* the keys of the documents dict in insertion order
RECURSIVE DocOrder(_, _)
DocOrder(page, seen) ==
    IF page = <<>> THEN seen
    ELSE LET d == PayloadDocId(Head(page))
         IN  DocOrder(Tail(page),
                      IF d # "" /\ d \notin Range(seen) THEN Append(seen, d) ELSE seen)

\* doc_list before pagination
DocList(S) ==
    LET page == Scroll(S, LIST_SCROLL_LIMIT)
        order == DocOrder(page, <<>>)
        first(d) == CHOOSE j \in 1..Len(page) :
                        /\ PayloadDocId(page[j]) = d
                        /\ \A i \in 1..(j - 1) : PayloadDocId(page[i]) # d
    IN  [n \in 1..Len(order) |->
            [id |-> order[n],
             filename |-> Get(page[first(order[n])].payload, "filename", "unknown"),
             content_type |-> Get(page[first(order[n])].payload, "content_type", "unknown"),
             chunks_count |-> Cardinality({j \in 1..Len(page) :
                                              PayloadDocId(page[j]) = order[n]}),
             status |-> "processed"]]

\* s[offset : offset + limit] for offset >= 0, limit >= 0
Slice(s, offset, limit) ==
    SubSeq(s, offset + 1, Min(offset + limit, Len(s)))

list_documents(limit, offset, fail) ==
    LET args == [limit |-> limit, offset |-> offset]
    IN  /\ UNCHANGED <<qdrant_host, client, embeddings, collection, points, init_ok>>
        /\ IF client = "none"
           THEN last' = Report("list", args, "not_initialized", <<>>, 0, <<>>, <<>>)
           ELSE IF fail = "store" \/ ~collection
           THEN last' = Report("list", args, "store_error", <<>>, 0, <<"scroll">>, <<>>)
           ELSE last' = Report("list", args, "ok",
                               Slice(DocList(points), offset, limit),
                               0, <<"scroll">>, <<>>)

\* len(unique_docs)
CountDocIds(S) ==
    LET page == Scroll(S, COUNT_SCROLL_LIMIT)
    IN  Cardinality({PayloadDocId(page[j]) : j \in 1..Len(page)} \ {""})

count_documents(fail) ==
    /\ UNCHANGED <<qdrant_host, client, embeddings, collection, points, init_ok>>
    /\ IF client = "none"
       THEN last' = Report("count", EmptyDict, "not_initialized", 0, 0, <<>>, <<>>)
       ELSE IF fail = "store"
       THEN \* a transport error is no UnexpectedResponse and propagates
            last' = Report("count", EmptyDict, "store_error", 0, 0, <<"scroll">>, <<>>)
       ELSE IF ~collection
       THEN \* the service answers 404: UnexpectedResponse, return 0
            last' = Report("count", EmptyDict, "ok", 0, 0, <<"scroll">>, <<>>)
       ELSE last' = Report("count", EmptyDict, "ok", CountDocIds(points), 0,
                           <<"scroll">>, <<>>)

\* ------------------------------------------------------------------------
\* The callers of the store: inputs
\* ------------------------------------------------------------------------
\* the text of the i-th chunk (1-based) of an uploaded document
ChunkText(i) == IF i % 2 = 1 THEN "a" ELSE "b"

\* the first n chunks of a document, without metadata of their own
PlainDocuments ==
    {[j \in 1..n |-> [page_content |-> ChunkText(j), metadata |-> EmptyDict]] :
     n \in 0..MaxChunks}

\* remote calls that can fail: the embedding provider, and the store when remote
Failures == {"none", "embed"} \cup StoreFailures

AddDocuments ==
    /\ \E documents \in PlainDocuments, doc_id \in DocIds, fail \in Failures :
           \E chunk_ids \in FreshIds(Len(documents)) :
               add_documents(documents, doc_id, EmptyDict, chunk_ids, fail)
    /\ UNCHANGED <<ctxVars, retrVars, rerankVars, ingestVars, appVars>>

\* chunk metadata as DocumentLoader.load_and_split writes it (loader.py:73-84)
LoaderMetadata(i) ==
    [filename |-> "f.txt", content_type |-> "text/plain", chunk_index |-> i,
     total_chunks |-> MaxChunks + 1]

\* n consecutive chunks of a loaded document, starting at its chunk `start`
Loaded(n, start) ==
    [j \in 1..n |-> [page_content |-> ChunkText(start + j),
                     metadata |-> LoaderMetadata(start + j - 1)]]

\* the first n chunks of a loaded document, or its second chunk alone
LoadedDocuments == {Loaded(n, 0) : n \in 0..MaxChunks} \cup {Loaded(1, 1)}

\* the metadata argument of add_documents
ExtraMetadata ==
    {EmptyDict,
     [filename |-> "g.txt", content_type |-> "text/plain"],
     [doc_id |-> "d2"]}

\* chunks, of a loader or plain, added with a metadata argument to a store
\* that holds no record
AddLoadedDocuments ==
    /\ \E documents \in LoadedDocuments \cup PlainDocuments, doc_id \in {"d1"},
          metadata \in ExtraMetadata, fail \in Failures :
           /\ points = {}
           /\ \E chunk_ids \in FreshIds(Len(documents)) :
                  add_documents(documents, doc_id, metadata, chunk_ids, fail)
    /\ UNCHANGED <<ctxVars, retrVars, rerankVars, ingestVars, appVars>>

Filters == {EmptyDict} \cup {[doc_id |-> d] : d \in DocIds}

Search ==
    /\ \E query \in {"a"}, top_k \in {1, MaxIds}, filter_metadata \in Filters,
          score_threshold \in {NoneInt, 5}, sim \in Sims, fail \in Failures :
           search(query, top_k, filter_metadata, score_threshold, sim, fail)
    /\ UNCHANGED <<ctxVars, retrVars, rerankVars, ingestVars, appVars>>

DeleteDocument ==
    /\ \E doc_id \in DocIds, fail \in {"none"} \cup StoreFailures :
           delete_document(doc_id, fail)
    /\ UNCHANGED <<ctxVars, retrVars, rerankVars, ingestVars, appVars>>

ListDocuments ==
    /\ \E limit \in 1..2, offset \in 0..1, fail \in {"none"} \cup StoreFailures :
           list_documents(limit, offset, fail)
    /\ UNCHANGED <<ctxVars, retrVars, rerankVars, ingestVars, appVars>>

CountDocuments ==
    /\ \E fail \in {"none"} \cup StoreFailures : count_documents(fail)
    /\ UNCHANGED <<ctxVars, retrVars, rerankVars, ingestVars, appVars>>

\* ------------------------------------------------------------------------
\* Rerankers
\* ------------------------------------------------------------------------
\* a or b, for optional integers: None and 0 are falsy
PyOr(a, b) == IF a = NoneInt \/ a = 0 THEN b ELSE a

\* k = top_k or self.top_k or len(documents)
EffectiveK(top_k, self_top_k, n) == PyOr(top_k, PyOr(self_top_k, n))

\* mutant of InsertDesc: ascending
InsertDesc_Ascending(sorted, x) ==
    LET ahead == Cardinality({i \in 1..Len(sorted) : sorted[i].score <= x.score})
    IN  SubSeq(sorted, 1, ahead) \o <<x>> \o SubSeq(sorted, ahead + 1, Len(sorted))

\* x put behind every entry of the descending sequence that scores at
\* least as much
InsertDesc(sorted, x) ==
    LET ahead == Cardinality({i \in 1..Len(sorted) : sorted[i].score >= x.score})
    IN  SubSeq(sorted, 1, ahead) \o <<x>> \o SubSeq(sorted, ahead + 1, Len(sorted))

\* list.sort(key=score, reverse=True): descending, and stable
RECURSIVE SortDesc(_)
SortDesc(scored) ==
    IF scored = <<>> THEN <<>>
    ELSE InsertDesc(SortDesc(SubSeq(scored, 1, Len(scored) - 1)), scored[Len(scored)])

\* zip(documents, scores)
Zip(documents, scores) ==
    [j \in 1..Len(documents) |-> [doc |-> documents[j], score |-> scores[j]]]

\* mutant of RerankedDoc: the new score also takes the place of
\* relevance_score
RerankedDoc_OverwriteRelevance(doc, rerank_score) ==
    [page_content |-> doc.page_content,
     metadata |-> DictUpdate(doc.metadata,
                             [rerank_score |-> rerank_score,
                              relevance_score |-> rerank_score,
                              original_score |-> Get(doc.metadata, "relevance_score", 0)])]

\* the Document built for a scored passage
RerankedDoc(doc, rerank_score) ==
    [page_content |-> doc.page_content,
     metadata |-> DictUpdate(doc.metadata,
                             [rerank_score |-> rerank_score,
                              original_score |-> Get(doc.metadata, "relevance_score", 0)])]

\* sort, cut to k, rebuild the documents
Reranked(documents, scores, k) ==
    LET top == FirstN(SortDesc(Zip(documents, scores)), k)
    IN  [j \in 1..Len(top) |-> RerankedDoc(top[j].doc, top[j].score)]

\* what a rerank or compress call did, recorded for the properties:
\* loads counts models and clients constructed, calls counts model,
\* service, LLM and embedding calls, inputs is the list of passages the
\* caller passed as the caller holds it after the call
CallReport(component, args, outcome, result, loads, calls, inputs) ==
    [component |-> component, args |-> args, outcome |-> outcome,
     result |-> result, loads |-> loads, calls |-> calls, inputs |-> inputs]

\* the three rerankers as constructed with top_k
NewRerankers(top_k) ==
    [cross_encoder |-> [top_k |-> top_k, initialized |-> FALSE],
     cohere |-> [top_k |-> top_k, client |-> FALSE],
     llm |-> [top_k |-> top_k, llm |-> FALSE]]

InitRerank ==
    /\ \E top_k \in {NoneInt, 2} : rerankers = NewRerankers(top_k)
    /\ out = CallReport("none", EmptyDict, "ok", <<>>, 0, 0, <<>>)

\* mutant of cross_encoder_rerank: the model is loaded before the list is
\* looked at
cross_encoder_rerank_LoadFirst(query, documents, top_k, scores, fail) ==
    LET self == rerankers.cross_encoder
        args == [query |-> query, documents |-> documents, top_k |-> top_k,
                 scores |-> scores]
        loads == IF self.initialized THEN 0 ELSE 1
        k == EffectiveK(top_k, self.top_k, Len(documents))
    IN  IF ~self.initialized /\ fail = "load"
        THEN /\ out' = CallReport("cross_encoder", args, "error", <<>>, 0, 0, documents)
             /\ UNCHANGED rerankers
        ELSE IF documents = <<>>
        THEN /\ out' = CallReport("cross_encoder", args, "ok", <<>>, loads, 0, documents)
             /\ rerankers' = [rerankers EXCEPT !.cross_encoder.initialized = TRUE]
        ELSE IF fail = "call"
        THEN /\ out' = CallReport("cross_encoder", args, "error", <<>>, loads, 1, documents)
             /\ rerankers' = [rerankers EXCEPT !.cross_encoder.initialized = TRUE]
        ELSE /\ out' = CallReport("cross_encoder", args, "ok",
                                  Reranked(documents, scores, k), loads, 1, documents)
             /\ rerankers' = [rerankers EXCEPT !.cross_encoder.initialized = TRUE]

\* CrossEncoderReranker.rerank, with _initialize
cross_encoder_rerank(query, documents, top_k, scores, fail) ==
    LET self == rerankers.cross_encoder
        args == [query |-> query, documents |-> documents, top_k |-> top_k,
                 scores |-> scores]
        loads == IF self.initialized THEN 0 ELSE 1
        k == EffectiveK(top_k, self.top_k, Len(documents))
    IN  IF documents = <<>>
        THEN /\ out' = CallReport("cross_encoder", args, "ok", <<>>, 0, 0, documents)
             /\ UNCHANGED rerankers
        ELSE IF ~self.initialized /\ fail = "load"
        THEN \* sentence_transformers is missing: ImportError
             /\ out' = CallReport("cross_encoder", args, "error", <<>>, 0, 0, documents)
             /\ UNCHANGED rerankers
        ELSE IF fail = "call"
        THEN \* predict raises
             /\ out' = CallReport("cross_encoder", args, "error", <<>>, loads, 1, documents)
             /\ rerankers' = [rerankers EXCEPT !.cross_encoder.initialized = TRUE]
        ELSE /\ out' = CallReport("cross_encoder", args, "ok",
                                  Reranked(documents, scores, k), loads, 1, documents)
             /\ rerankers' = [rerankers EXCEPT !.cross_encoder.initialized = TRUE]

\* CohereReranker.arerank, with _get_client; response.results is what the
\* service answered: entries [index, relevance_score], index 0-based
CohereReranked(documents, results) ==
    [j \in 1..Len(results) |->
        RerankedDoc(documents[results[j].index + 1], results[j].relevance_score)]

cohere_rerank(query, documents, top_k, results, fail) ==
    LET self == rerankers.cohere
        args == [query |-> query, documents |-> documents, top_k |-> top_k,
                 top_n |-> EffectiveK(top_k, self.top_k, Len(documents)),
                 results |-> results]
        loads == IF self.client THEN 0 ELSE 1
    IN  IF documents = <<>>
        THEN /\ out' = CallReport("cohere", args, "ok", <<>>, 0, 0, documents)
             /\ UNCHANGED rerankers
        ELSE IF ~self.client /\ fail = "load"
        THEN \* no cohere package, or no API key configured
             /\ out' = CallReport("cohere", args, "error", <<>>, 0, 0, documents)
             /\ UNCHANGED rerankers
        ELSE IF fail = "call"
        THEN \* client.rerank raises
             /\ out' = CallReport("cohere", args, "error", <<>>, loads, 1, documents)
             /\ rerankers' = [rerankers EXCEPT !.cohere.client = TRUE]
        ELSE /\ out' = CallReport("cohere", args, "ok",
                                  CohereReranked(documents, results), loads, 1, documents)
             /\ rerankers' = [rerankers EXCEPT !.cohere.client = TRUE]

\* float(response.content.strip()): the texts that parse, and their values
FloatValue(content) ==
    CASE content = "9" -> 9
      [] content = " 3 " -> 3
      [] content = "12" -> 12
      [] content = "-3" -> -3
      [] OTHER -> NoneInt

ParsesAsFloat(content) == content \in {"9", " 3 ", "12", "-3"}

\* mutant of LLMScore: a reply that is no number scores 0
LLMScore_ZeroDefault(reply) ==
    IF ParsesAsFloat(reply.content)
    THEN Max(0, Min(10, FloatValue(reply.content)))
    ELSE 0

\* the score of one passage, 0..10, from the LLM's reply
LLMScore(reply) ==
    IF ParsesAsFloat(reply.content)
    THEN Max(0, Min(10, FloatValue(reply.content)))
    ELSE 5

\* score / 10.0, in tenths
Normalized(score) == (score * 10) \div 10

\* the position of the first reply that is an exception raised by
\* llm.ainvoke, 0 when there is none
FirstRaise(replies) ==
    IF \E j \in 1..Len(replies) : replies[j].raises
    THEN CHOOSE j \in 1..Len(replies) :
             replies[j].raises /\ \A i \in 1..(j - 1) : ~replies[i].raises
    ELSE 0

llm_rerank(query, documents, top_k, replies, fail) ==
    LET self == rerankers.llm
        args == [query |-> query, documents |-> documents, top_k |-> top_k,
                 replies |-> replies]
        loads == IF self.llm THEN 0 ELSE 1
        k == EffectiveK(top_k, self.top_k, Len(documents))
        scores == [j \in 1..Len(documents) |-> LLMScore(replies[j])]
        top == FirstN(SortDesc(Zip(documents, scores)), k)
    IN  IF documents = <<>>
        THEN /\ out' = CallReport("llm", args, "ok", <<>>, 0, 0, documents)
             /\ UNCHANGED rerankers
        ELSE IF ~self.llm /\ fail = "load"
        THEN \* ChatOpenAI cannot be constructed
             /\ out' = CallReport("llm", args, "error", <<>>, 0, 0, documents)
             /\ UNCHANGED rerankers
        ELSE IF FirstRaise(replies) # 0
        THEN \* only ValueError and AttributeError are caught
             /\ out' = CallReport("llm", args, "error", <<>>, loads, FirstRaise(replies), documents)
             /\ rerankers' = [rerankers EXCEPT !.llm.llm = TRUE]
        ELSE /\ out' = CallReport("llm", args, "ok",
                                  [j \in 1..Len(top) |->
                                      RerankedDoc(top[j].doc, Normalized(top[j].score))],
                                  loads, Len(documents), documents)
             /\ rerankers' = [rerankers EXCEPT !.llm.llm = TRUE]

\* ------------------------------------------------------------------------
\* The callers of the rerankers: inputs
\* ------------------------------------------------------------------------
\* the j-th candidate of a search: its text stands for itself, and the
\* similarity scores descend as the store returns them
Candidate(j) ==
    [page_content |-> <<"A", "B", "C", "D", "E">>[j],
     metadata |-> [doc_id |-> "d1", chunk_index |-> j - 1,
                   relevance_score |-> 10 - j]]

\* the first n candidates, n = 0 included
CandidateLists == {[j \in 1..n |-> Candidate(j)] : n \in 0..MaxDocs}

\* a passage no retriever has scored, as DocumentLoader builds it
Unscored ==
    [page_content |-> "U",
     metadata |-> [filename |-> "f.txt", content_type |-> "text/plain",
                   chunk_index |-> 0, total_chunks |-> 1]]

\* a passage that a reranker has returned before
Rescored == RerankedDoc(Candidate(2), 5)

\* one passage of any kind, or the first candidate and one of any kind
MetadataLists ==
    LET kinds == {Candidate(2), Unscored, Rescored}
    IN  {<<>>} \cup {<<v>> : v \in kinds} \cup {<<Candidate(1), v>> : v \in kinds}

\* no candidate, or one
ShortLists == {<<>>, <<Candidate(1)>>}

\* the top_k argument: absent, or a non-negative integer up to more than
\* there are candidates
TopKs == {NoneInt, 0, 1, 2, MaxDocs + 1}

Queries == {"qdrant vectors"}

\* a call of rerank on one of lists: the model scores every passage, or
\* sentence_transformers is missing (a model once loaded stays), or
\* predict raises
CrossEncoderRerank(lists) ==
    /\ \E query \in Queries, documents \in lists, top_k \in TopKs :
          \/ \E scores \in [1..Len(documents) -> ModelScores] :
                 cross_encoder_rerank(query, documents, top_k, scores, "none")
          \/ \E fail \in {"load", "call"} :
                 /\ fail = "load" => ~rerankers.cross_encoder.initialized
                 /\ cross_encoder_rerank(query, documents, top_k, <<>>, fail)
    /\ UNCHANGED <<ctxVars, retrVars, storeVars, compressors, ingestVars, appVars>>

\* answers of the rerank service: a list of up to MaxResults distinct
\* indices with scores
CohereResults(n) ==
    UNION {{r \in [1..m -> [index : 0..(n - 1), relevance_score : ServiceScores]] :
               \A i, j \in 1..m : i # j => r[i].index # r[j].index} :
           m \in 0..Min(n, MaxResults)}

CohereRerank(lists) ==
    /\ \E query \in Queries, documents \in lists, top_k \in TopKs :
          \/ \E results \in CohereResults(Len(documents)) :
                 cohere_rerank(query, documents, top_k, results, "none")
          \/ \E fail \in {"load", "call"} :
                 /\ fail = "load" => ~rerankers.cohere.client
                 /\ cohere_rerank(query, documents, top_k, <<>>, fail)
    /\ UNCHANGED <<ctxVars, retrVars, storeVars, compressors, ingestVars, appVars>>

\* what llm.ainvoke does for one passage: a reply (a number over the scale,
\* a number between blanks, or no number), or an exception
LLMReplies ==
    {[raises |-> FALSE, content |-> c] : c \in {"12", " 3 ", "not a number"}}
        \cup {[raises |-> TRUE, content |-> ""]}

LLMRerank(lists) ==
    /\ \E query \in Queries, documents \in lists, top_k \in {NoneInt, 2} :
          \/ \E replies \in [1..Len(documents) -> LLMReplies] :
                 llm_rerank(query, documents, top_k, replies, "none")
          \/ /\ ~rerankers.llm.llm
             /\ llm_rerank(query, documents, top_k, <<>>, "load")
    /\ UNCHANGED <<ctxVars, retrVars, storeVars, compressors, ingestVars, appVars>>

\* ------------------------------------------------------------------------
\* Passage texts of the compressors
\* ------------------------------------------------------------------------
\* A passage text is the sequence of the pieces that
\* re.split(r'(?<=[.!?])\s+', text) yields, which single spaces separate; a
\* blank piece "" is what leading or trailing whitespace leaves (the text
\* "" is <<"">>).
S1 == "Qdrant stores vectors."

S2 == "It is fast."

S3 == "The retriever asks the store for the nearest vectors of a query."

Pieces == {S1, S2, S3, ""}

\* len(piece)
CharLen(piece) ==
    CASE piece = S1 -> 22
      [] piece = S2 -> 11
      [] piece = S3 -> 64
      [] piece = "NOT_RELEVANT" -> 12
      [] piece = " not_relevant " -> 14
      [] piece = " It is fast. " -> 13
      [] OTHER -> 0

\* len(piece.split())
WordCount(piece) ==
    CASE piece = S1 -> 3
      [] piece = S2 -> 3
      [] piece = S3 -> 12
      [] OTHER -> 0

\* set(piece.lower().split())
Terms(piece) ==
    CASE piece = S1 -> {"qdrant", "stores", "vectors."}
      [] piece = S2 -> {"it", "is", "fast."}
      [] piece = S3 -> {"the", "retriever", "asks", "store", "for", "nearest",
                        "vectors", "of", "a", "query."}
      [] piece = "qdrant vectors" -> {"qdrant", "vectors"}
      [] piece = "the store" -> {"the", "store"}
      [] piece = "Qdrant stores" -> {"qdrant", "stores"}
      [] OTHER -> {}

\* s.strip()
Strip(s) ==
    CASE s = " not_relevant " -> "not_relevant"
      [] s = " It is fast. " -> S2
      [] OTHER -> s

\* s.upper()
Upper(s) ==
    CASE s = "not_relevant" -> "NOT_RELEVANT"
      [] s = S1 -> "QDRANT STORES VECTORS."
      [] s = S2 -> "IT IS FAST."
      [] OTHER -> s

RECURSIVE SumLen(_)
SumLen(text) == IF text = <<>> THEN 0 ELSE CharLen(Head(text)) + SumLen(Tail(text))

\* len(text): the pieces and the single spaces between them
TextLen(text) == IF text = <<>> THEN 0 ELSE SumLen(text) + Len(text) - 1

\* [s.strip() for s in sentences if s.strip()]
RECURSIVE NonBlank(_)
NonBlank(text) ==
    IF text = <<>> THEN <<>>
    ELSE IF Strip(Head(text)) = "" THEN NonBlank(Tail(text))
    ELSE <<Strip(Head(text))>> \o NonBlank(Tail(text))

\* _split_sentences(text)
SplitSentences(text) == NonBlank(text)

\* ------------------------------------------------------------------------
\* Compressors
\* ------------------------------------------------------------------------
\* the three compressors as constructed: the defaults of the constructors
\* (similarity_threshold 0.7, compression_ratio 0.3, min_sentences 2) and
\* max_sentences as given
NewCompressors(max_sentences) ==
    [llm |-> [llm |-> FALSE],
     embedding |-> [embeddings |-> FALSE, similarity_threshold |-> 7,
                    max_sentences |-> max_sentences],
     extractive |-> [compression_ratio |-> [num |-> 3, den |-> 10],
                     min_sentences |-> 2, max_sentences |-> max_sentences]]

\* max_sentences is the default 10, or 2
InitCompress == \E max_sentences \in {2, 10} : compressors = NewCompressors(max_sentences)

\* mutant of CompressedDoc: compressed_length is the length of the original
CompressedDoc_OriginalLength(doc, content, extra) ==
    [page_content |-> content,
     metadata |-> DictUpdate(DictUpdate(doc.metadata,
                                        [compressed |-> TRUE,
                                         original_length |-> TextLen(doc.page_content),
                                         compressed_length |-> TextLen(doc.page_content)]),
                             extra)]

\* the Document a compressor builds
CompressedDoc(doc, content, extra) ==
    [page_content |-> content,
     metadata |-> DictUpdate(DictUpdate(doc.metadata,
                                        [compressed |-> TRUE,
                                         original_length |-> TextLen(doc.page_content),
                                         compressed_length |-> TextLen(content)]),
                             extra)]

\* mutant of LLMCompressed: a passage whose LLM call fails is dropped
RECURSIVE LLMCompressed_DropFailed(_, _)
LLMCompressed_DropFailed(documents, replies) ==
    IF documents = <<>> THEN <<>>
    ELSE LET doc == Head(documents)
             reply == Head(replies)
             compressed_content == Strip(reply.content)
             rest == LLMCompressed_DropFailed(Tail(documents), Tail(replies))
         IN  IF reply.raises THEN rest
             ELSE IF Upper(compressed_content) = "NOT_RELEVANT" THEN rest
             ELSE <<CompressedDoc(doc, <<compressed_content>>, EmptyDict)>> \o rest

\* LLMContextCompressor.compress: the passages kept, for the replies of
\* llm.ainvoke to the passages in turn
RECURSIVE LLMCompressed(_, _)
LLMCompressed(documents, replies) ==
    IF documents = <<>> THEN <<>>
    ELSE LET doc == Head(documents)
             reply == Head(replies)
             compressed_content == Strip(reply.content)
             rest == LLMCompressed(Tail(documents), Tail(replies))
         IN  IF reply.raises THEN <<doc>> \o rest
             ELSE IF Upper(compressed_content) = "NOT_RELEVANT" THEN rest
             ELSE <<CompressedDoc(doc, <<compressed_content>>, EmptyDict)>> \o rest

llm_compress(query, documents, replies, fail) ==
    LET self == compressors.llm
        args == [query |-> query, documents |-> documents, replies |-> replies]
        loads == IF self.llm THEN 0 ELSE 1
    IN  IF documents = <<>>
        THEN /\ out' = CallReport("llm_compressor", args, "ok", <<>>, 0, 0, documents)
             /\ UNCHANGED compressors
        ELSE IF ~self.llm /\ fail = "load"
        THEN /\ out' = CallReport("llm_compressor", args, "error", <<>>, 0, 0, documents)
             /\ UNCHANGED compressors
        ELSE /\ out' = CallReport("llm_compressor", args, "ok",
                                  LLMCompressed(documents, replies),
                                  loads, Len(documents), documents)
             /\ compressors' = [compressors EXCEPT !.llm.llm = TRUE]

\* EmbeddingContextCompressor: the sentences at or above the threshold with
\* their similarity, in text order; sim is the cosine of the query embedding
\* and each sentence embedding, in tenths
AboveThreshold(sentences, sim, threshold) ==
    LET keep == {j \in 1..Len(sentences) : sim[sentences[j]] >= threshold}
        nth(m) == CHOOSE j \in keep : Cardinality({i \in keep : i < j}) = m - 1
    IN  [m \in 1..Cardinality(keep) |->
            [doc |-> sentences[nth(m)], score |-> sim[sentences[nth(m)]]]]

\* mutant of TopSentences: the first max_sentences qualifying sentences of the text
TopSentences_TextOrder(sentences, sim, threshold, max_sentences) ==
    FirstN(AboveThreshold(sentences, sim, threshold), max_sentences)

\* top_sentences of one passage
TopSentences(sentences, sim, threshold, max_sentences) ==
    FirstN(SortDesc(AboveThreshold(sentences, sim, threshold)), max_sentences)

RECURSIVE EmbeddingCompressed(_, _, _)
EmbeddingCompressed(documents, sim, self) ==
    IF documents = <<>> THEN <<>>
    ELSE LET doc == Head(documents)
             sentences == SplitSentences(doc.page_content)
             top == TopSentences(sentences, sim, self.similarity_threshold,
                                 self.max_sentences)
             rest == EmbeddingCompressed(Tail(documents), sim, self)
         IN  IF sentences = <<>> THEN rest
             ELSE IF top = <<>> THEN <<doc>> \o rest
             ELSE <<CompressedDoc(doc, [j \in 1..Len(top) |-> top[j].doc],
                                  [kept_sentences |-> Len(top),
                                   total_sentences |-> Len(sentences)])>> \o rest

embedding_compress(query, documents, sim, fail) ==
    LET self == compressors.embedding
        args == [query |-> query, documents |-> documents, sim |-> sim]
        loads == IF self.embeddings THEN 0 ELSE 1
        embedded == Cardinality({j \in 1..Len(documents) :
                                    SplitSentences(documents[j].page_content) # <<>>})
    IN  IF documents = <<>>
        THEN /\ out' = CallReport("embedding_compressor", args, "ok", <<>>, 0, 0, documents)
             /\ UNCHANGED compressors
        ELSE IF ~self.embeddings /\ fail = "load"
        THEN /\ out' = CallReport("embedding_compressor", args, "error", <<>>, 0, 0, documents)
             /\ UNCHANGED compressors
        ELSE IF fail = "call"
        THEN \* aembed_query raises
             /\ out' = CallReport("embedding_compressor", args, "error", <<>>, loads, 1, documents)
             /\ compressors' = [compressors EXCEPT !.embedding.embeddings = TRUE]
        ELSE /\ out' = CallReport("embedding_compressor", args, "ok",
                                  EmbeddingCompressed(documents, sim, self),
                                  loads, 1 + embedded, documents)
             /\ compressors' = [compressors EXCEPT !.embedding.embeddings = TRUE]

Abs(x) == IF x < 0 THEN -x ELSE x

\* ExtractiveSummaryCompressor._score_sentence, times 20 * total_sentences *
\* max(len(query_terms), 1) so that the score is an integer
ScoreSentence(sentence, position, total_sentences, query_terms) ==
    LET q == Max(Cardinality(query_terms), 1)
        n == total_sentences
        position_score ==
            IF position = 0 THEN 6 * n * q
            ELSE IF position = n - 1 THEN 2 * n * q
            ELSE (2 * n - Abs(2 * position - n)) * q
        overlap == Cardinality(query_terms \cap Terms(sentence))
        overlap_score == 8 * n * overlap
        word_count == WordCount(sentence)
        length_score ==
            IF 10 <= word_count /\ word_count <= 30 THEN 4 * n * q
            ELSE IF word_count < 5 THEN -(2 * n * q)
            ELSE 0
    IN  position_score + overlap_score + length_score

\* target_count; int() truncates
TargetCount(n, self) ==
    Max(self.min_sentences,
        Min(self.max_sentences,
            (n * self.compression_ratio.num) \div self.compression_ratio.den))

\* original_order.get(sentence, 0): the dict comprehension keeps, for a
\* sentence text, the index of its last occurrence
OriginalOrder(sentences, sentence) ==
    IF \E i \in 1..Len(sentences) : sentences[i] = sentence
    THEN (CHOOSE i \in 1..Len(sentences) :
              /\ sentences[i] = sentence
              /\ \A j \in (i + 1)..Len(sentences) : sentences[j] # sentence) - 1
    ELSE 0

\* x put behind every entry of the ascending sequence whose key is at most
\* its own
InsertAsc(sorted, x) ==
    LET ahead == Cardinality({i \in 1..Len(sorted) : sorted[i].key <= x.key})
    IN  SubSeq(sorted, 1, ahead) \o <<x>> \o SubSeq(sorted, ahead + 1, Len(sorted))

\* list.sort(key=...): ascending, and stable
RECURSIVE SortAsc(_)
SortAsc(keyed) ==
    IF keyed = <<>> THEN <<>>
    ELSE InsertAsc(SortAsc(SubSeq(keyed, 1, Len(keyed) - 1)), keyed[Len(keyed)])

\* the sentences of the compressed content of one passage, in their order
ExtractiveContent(sentences, query_terms, self) ==
    LET scored == [j \in 1..Len(sentences) |->
                      [doc |-> sentences[j],
                       score |-> ScoreSentence(sentences[j], j - 1, Len(sentences),
                                               query_terms)]]
        top == FirstN(SortDesc(scored), TargetCount(Len(sentences), self))
        keyed == [j \in 1..Len(top) |->
                     [doc |-> top[j].doc,
                      key |-> OriginalOrder(sentences, top[j].doc)]]
        ordered == SortAsc(keyed)
    IN  [j \in 1..Len(ordered) |-> ordered[j].doc]

\* mutant of ExtractiveCompressed: a passage of exactly min_sentences
\* sentences is compressed as well
RECURSIVE ExtractiveCompressed_BelowMin(_, _, _)
ExtractiveCompressed_BelowMin(documents, query_terms, self) ==
    IF documents = <<>> THEN <<>>
    ELSE LET doc == Head(documents)
             sentences == SplitSentences(doc.page_content)
             content == ExtractiveContent(sentences, query_terms, self)
             rest == ExtractiveCompressed_BelowMin(Tail(documents), query_terms, self)
         IN  IF Len(sentences) < self.min_sentences THEN <<doc>> \o rest
             ELSE <<CompressedDoc(doc, content,
                                  [kept_sentences |-> Len(content),
                                   total_sentences |-> Len(sentences)])>> \o rest

RECURSIVE ExtractiveCompressed(_, _, _)
ExtractiveCompressed(documents, query_terms, self) ==
    IF documents = <<>> THEN <<>>
    ELSE LET doc == Head(documents)
             sentences == SplitSentences(doc.page_content)
             content == ExtractiveContent(sentences, query_terms, self)
             rest == ExtractiveCompressed(Tail(documents), query_terms, self)
         IN  IF Len(sentences) <= self.min_sentences THEN <<doc>> \o rest
             ELSE <<CompressedDoc(doc, content,
                                  [kept_sentences |-> Len(content),
                                   total_sentences |-> Len(sentences)])>> \o rest

extractive_compress(query, documents) ==
    LET self == compressors.extractive
        args == [query |-> query, documents |-> documents]
    IN  /\ UNCHANGED compressors
        /\ IF documents = <<>>
           THEN out' = CallReport("extractive_compressor", args, "ok", <<>>, 0, 0, documents)
           ELSE out' = CallReport("extractive_compressor", args, "ok",
                                  ExtractiveCompressed(documents, Terms(query), self),
                                  0, 0, documents)

\* ------------------------------------------------------------------------
\* The callers of the compressors: inputs
\* ------------------------------------------------------------------------
\* every text of up to MaxSentences pieces
Passages == UNION {[1..n -> Pieces] : n \in 1..MaxSentences}

\* a few texts for the passages of a longer list: blank, two sentences,
\* and more sentences than min_sentences with one of them twice
PassagePool == {<<"">>, <<S1, S3>>, <<S1, S2, S1>>}

PassageDoc(text, j) ==
    [page_content |-> text,
     metadata |-> [doc_id |-> "d1", chunk_index |-> j - 1, relevance_score |-> 10 - j]]

\* no passage, or one from the pool
ShortPassageLists == {<<>>} \cup {<<PassageDoc(text, 1)>> : text \in PassagePool}

\* the text of the passage at place j of a longer list: two sentences, a
\* blank text, a sentence twice with another between, one sentence
PlaceText(j) ==
    CASE j = 1 -> <<S1, S3>>
      [] j = 2 -> <<"">>
      [] j = 3 -> <<S1, S2, S1>>
      [] OTHER -> <<S2>>

\* the lists of up to MaxDocs passages, the passage at place j being PlaceText(j)
PlacedPassageLists == {[j \in 1..n |-> PassageDoc(PlaceText(j), j)] : n \in 0..MaxDocs}

\* one passage of up to MaxSentences sentences
SentencePassageLists ==
    {<<PassageDoc(text, 1)>> : text \in UNION {[1..n -> {S1, S2, S3}] : n \in 1..MaxSentences}}

CompressQueries == {"qdrant vectors", "the store"}

\* what llm.ainvoke does for one passage: a reply, or an exception
CompressReplies ==
    {[raises |-> FALSE, content |-> c] :
        c \in {"NOT_RELEVANT", " not_relevant ", " It is fast. ", ""}}
        \cup {[raises |-> TRUE, content |-> ""]}

LLMCompress(lists) ==
    /\ \E query \in Queries, documents \in lists :
          \/ \E replies \in [1..Len(documents) -> CompressReplies] :
                 llm_compress(query, documents, replies, "none")
          \/ /\ ~compressors.llm.llm
             /\ llm_compress(query, documents, <<>>, "load")
    /\ UNCHANGED <<ctxVars, retrVars, storeVars, rerankers, ingestVars, appVars>>

\* cosine similarities of the query to the sentences, in tenths
SentenceSims == [{S1, S2, S3} -> {6, 7, 9}]

EmbeddingCompress(lists, sims) ==
    /\ \E query \in Queries, documents \in lists :
          \/ \E sim \in sims : embedding_compress(query, documents, sim, "none")
          \/ \E fail \in {"load", "call"} :
                 /\ fail = "load" => ~compressors.embedding.embeddings
                 /\ embedding_compress(query, documents, EmptyDict, fail)
    /\ UNCHANGED <<ctxVars, retrVars, storeVars, rerankers, ingestVars, appVars>>

ExtractiveCompress(lists) ==
    /\ \E query \in CompressQueries, documents \in lists :
          extractive_compress(query, documents)
    /\ UNCHANGED <<ctxVars, retrVars, storeVars, rerankers, ingestVars, appVars>>

\* ------------------------------------------------------------------------
\* HybridRetriever
\* ------------------------------------------------------------------------
\* what a retrieve call did, recorded for the properties: calls is the
\* sequence of the calls it made to the store, the base retriever, the
\* reranker and the compressor, each with its arguments
RetrievalReport(retriever, args, outcome, result, calls) ==
    [retriever |-> retriever, args |-> args, outcome |-> outcome,
     result |-> result, calls |-> calls]

\* the hybrid retriever as constructed with top_k: the default weights 0.7
\* and 0.3, in tenths
NewHybrid(top_k) == [semantic_weight |-> 7, keyword_weight |-> 3, top_k |-> top_k]

\* f"{doc_id}_{chunk_index}", as the pair it is built from
HybridKey(result) ==
    <<Get(result.metadata, "doc_id", ""), Get(result.metadata, "chunk_index", 0)>>

\* mutant of CombinedScore: the keyword part counts the matching terms
\* instead of taking their share of the query terms
CombinedScore_MatchCount(self, query, result) ==
    LET query_terms == Terms(query)
        content_terms == Terms(result.content)
        den == Max(Cardinality(query_terms), 1)
    IN  result.score * self.semantic_weight * den
            + Cardinality(query_terms \cap content_terms) * self.keyword_weight * 10 * den

\* combined_score of one search result. Scores are tenths and weights are
\* tenths; the value is in units of 1/(100 * max(len(query_terms), 1)),
\* the same unit for every result of one call.
CombinedScore(self, query, result) ==
    LET query_terms == Terms(query)
        content_terms == Terms(result.content)
        den == Max(Cardinality(query_terms), 1)
    IN  result.score * self.semantic_weight * den
            + Cardinality(query_terms \cap content_terms) * self.keyword_weight * 10

\* d[key] = value on a dict kept as the sequence of its items: a key the
\* dict holds keeps its place and takes the new value
DictPut(d, key, value) ==
    IF \E i \in 1..Len(d) : d[i].key = key
    THEN [i \in 1..Len(d) |->
             IF d[i].key = key THEN [key |-> key, value |-> value] ELSE d[i]]
    ELSE Append(d, [key |-> key, value |-> value])

\* d.values()
DictValues(d) == [i \in 1..Len(d) |-> d[i].value]

\* scored_docs after the loop over semantic_results
RECURSIVE ScoredDocs(_, _, _)
ScoredDocs(self, query, semantic_results) ==
    IF semantic_results = <<>> THEN <<>>
    ELSE LET n == Len(semantic_results)
             result == semantic_results[n]
         IN  DictPut(ScoredDocs(self, query, SubSeq(semantic_results, 1, n - 1)),
                     HybridKey(result),
                     [content |-> result.content,
                      metadata |-> result.metadata,
                      score |-> CombinedScore(self, query, result)])

\* the documents HybridRetriever returns for the answer of the store
HybridDocuments(self, query, semantic_results) ==
    LET sorted_docs == FirstN(SortDesc(DictValues(ScoredDocs(self, query, semantic_results))),
                              self.top_k)
    IN  [j \in 1..Len(sorted_docs) |->
            [page_content |-> sorted_docs[j].content,
             metadata |-> DictUpdate(sorted_docs[j].metadata,
                                     [relevance_score |-> sorted_docs[j].score])]]

\* HybridRetriever._aget_relevant_documents(query); semantic_results is what
\* vector_store.search answers, fail = "search" has it raise
hybrid_retrieve(query, semantic_results, fail) ==
    LET self == retrievers.hybrid
        call == [target |-> "search", query |-> query, top_k |-> self.top_k * 2]
        args == [query |-> query, semantic_results |-> semantic_results]
    IN  /\ UNCHANGED retrievers
        /\ IF fail = "search"
           THEN ret' = RetrievalReport("hybrid", args, "error", <<>>, <<call>>)
           ELSE ret' = RetrievalReport("hybrid", args, "ok",
                                       HybridDocuments(self, query, semantic_results),
                                       <<call>>)

\* ------------------------------------------------------------------------
\* QdrantRetriever and ContextualRetriever
\* ------------------------------------------------------------------------
\* the documents QdrantRetriever builds from the answer of the store
RetrievedDocs(results) ==
    [j \in 1..Len(results) |->
        [page_content |-> results[j].content,
         metadata |-> DictUpdate(results[j].metadata,
                                 [relevance_score |-> results[j].score])]]

\* " ".join(parts)
RECURSIVE Join(_)
Join(parts) ==
    IF parts = <<>> THEN ""
    ELSE IF Len(parts) = 1 THEN parts[1]
    ELSE parts[1] \o " " \o Join(Tail(parts))

\* mutant of EnhancedQuery: the context taken is the three oldest entries
EnhancedQuery_OldestThree(ctx, query) ==
    IF ctx # <<>>
    THEN Join(FirstN(ctx, 3)) \o " " \o query
    ELSE query

\* enhanced_query
EnhancedQuery(ctx, query) ==
    IF ctx # <<>>
    THEN Join(LastN(ctx, 3)) \o " " \o query
    ELSE query

\* ContextualRetriever._aget_relevant_documents(query); results is what the
\* store answers the base retriever, fail = "search" has it raise
contextual_retrieve(query, results, fail) ==
    LET enhanced_query == EnhancedQuery(conversation_context, query)
        call == [target |-> "base_retriever", query |-> enhanced_query]
        args == [query |-> query]
    IN  /\ UNCHANGED <<conversation_context, added, retrievers>>
        /\ IF fail = "search"
           THEN ret' = RetrievalReport("contextual", args, "error", <<>>, <<call>>)
           ELSE ret' = RetrievalReport("contextual", args, "ok",
                                       RetrievedDocs(results), <<call>>)

\* ------------------------------------------------------------------------
\* AdvancedRetriever
\* ------------------------------------------------------------------------
\* the advanced retriever as constructed: the defaults of top_k (5) and
\* initial_k (20) scaled down to 1 and 2, the default reranker and
\* compressor types
NewAdvanced(use_reranker, use_compressor) ==
    [top_k |-> 1, initial_k |-> 2,
     use_reranker |-> use_reranker, use_compressor |-> use_compressor,
     reranker_type |-> "cross-encoder", compressor_type |-> "extractive"]

\* get_reranker(reranker_type, **kwargs) raises: each of its branches calls
\* the constructor with top_k=kwargs.get("top_k", ...) and with **kwargs, so
\* a top_k among kwargs reaches the constructor twice, which is a TypeError
GetRerankerRaises(reranker_type, kwargs) == "top_k" \in DOMAIN kwargs

\* the client a compressor builds on its first compress of a non-empty list
\* (_get_llm, _get_embeddings); the extractive compressor has none
CompressorClient(compressor_type) ==
    IF compressor_type = "llm" THEN <<"llm">>
    ELSE IF compressor_type = "embedding" THEN <<"embeddings">>
    ELSE <<>>

\* the report of an advanced retrieve: built lists the objects the call
\* constructed (reranker, compressor and the clients they own)
AdvancedReport(args, outcome, result, calls, built) ==
    RetrievalReport("advanced", args, outcome, result, calls) @@ [built |-> built]

\* AdvancedRetriever._aget_relevant_documents(query); results is what the
\* store answers, reranked and compressed are what the reranker and the
\* compressor answer when called, fail has the search or the compressor
\* raise
advanced_retrieve(query, results, reranked, compressed, fail) ==
    LET self == retrievers.advanced
        args == [query |-> query, results |-> results, reranked |-> reranked,
                 fail |-> fail]
        retrieval_k == IF self.use_reranker THEN self.initial_k ELSE self.top_k
        search_call == [target |-> "search", query |-> query, top_k |-> retrieval_k]
        documents == RetrievedDocs(results)
        reranks == self.use_reranker /\ documents # <<>>
        rerank_call == [target |-> "rerank", query |-> query,
                        documents |-> documents, top_k |-> self.top_k]
        after_rerank == IF reranks THEN reranked ELSE documents
        rerank_calls == IF reranks THEN <<rerank_call>> ELSE <<>>
        rerank_built == IF reranks THEN <<"reranker">> ELSE <<>>
        compresses == self.use_compressor /\ after_rerank # <<>>
        compress_call == [target |-> "compress", query |-> query,
                          documents |-> after_rerank]
    IN  /\ UNCHANGED retrievers
        /\ IF fail = "search"
           THEN ret' = AdvancedReport(args, "error", <<>>, <<search_call>>, <<>>)
           ELSE IF reranks /\ GetRerankerRaises(self.reranker_type, [top_k |-> self.top_k])
           THEN ret' = AdvancedReport(args, "error", <<>>, <<search_call>>, <<>>)
           ELSE IF compresses /\ fail = "compress"
           THEN ret' = AdvancedReport(args, "error", <<>>,
                                      <<search_call>> \o rerank_calls \o <<compress_call>>,
                                      rerank_built \o <<"compressor">>)
           ELSE IF compresses
           THEN ret' = AdvancedReport(args, "ok", compressed,
                                      <<search_call>> \o rerank_calls \o <<compress_call>>,
                                      rerank_built \o <<"compressor">>
                                          \o CompressorClient(self.compressor_type))
           ELSE ret' = AdvancedReport(args, "ok", after_rerank,
                                      <<search_call>> \o rerank_calls, rerank_built)

\* ------------------------------------------------------------------------
\* Retrievers: the inputs of the calls
\* ------------------------------------------------------------------------
HitContents == {S1, S2, S3}

HitScores == {5, 9}

\* one formatted result of VectorStore.search
Hits ==
    {[content |-> c, score |-> s, metadata |-> [doc_id |-> "d1", chunk_index |-> i]] :
        c \in HitContents, s \in HitScores, i \in 0..(MaxHits - 1)}

\* the answers of VectorStore.search are results by descending score. The
\* texts of one answer differ, and its chunks are numbered in the order they
\* appear in (a result has the chunk_index of an earlier result or the next
\* free one): the results that can follow the answer r
NextHits(r) ==
    {h \in Hits :
        /\ r # <<>> => r[Len(r)].score >= h.score
        /\ \A i \in 1..Len(r) : r[i].content # h.content
        /\ h.metadata["chunk_index"]
               <= Cardinality({r[i].metadata["chunk_index"] : i \in 1..Len(r)})}

\* the answers of n results
RECURSIVE AnswersOfLen(_)
AnswersOfLen(n) ==
    IF n = 0 THEN {<<>>}
    ELSE UNION {{Append(r, h) : h \in NextHits(r)} : r \in AnswersOfLen(n - 1)}

\* what VectorStore.search answers for top_k = limit: at most limit results
SearchAnswers(limit) == UNION {AnswersOfLen(n) : n \in 0..Min(limit, MaxHits)}

\* a query with every term in S1, a query with one term in S1 and one in
\* S3, and a query without terms
HybridQueries == {"Qdrant stores", "qdrant vectors", ""}

ContextQueries == {"what now"}

\* the messages the call after n calls of add_context may carry in a
\* conversation with retrieves: any message for the first three turns and
\* the last three, the same message in between
ContextTurns(n) ==
    IF n < 3 \/ n >= MaxContextAdds - 3 THEN Messages ELSE {"m1"}

AddContextTurn ==
    /\ \E message \in ContextTurns(Len(added)) : add_context(message)
    /\ UNCHANGED <<storeVars, rerankVars, retrVars, ingestVars, appVars>>

ContextualRetrieve ==
    /\ \E query \in ContextQueries :
          \/ \E results \in SearchAnswers(1) :
                 contextual_retrieve(query, results, "none")
          \/ contextual_retrieve(query, <<>>, "search")
    /\ UNCHANGED <<storeVars, rerankVars, ingestVars, appVars>>

\* what a reranker answers for documents and top_k: the first top_k of them
\* in the order given or in the reverse order, with no regard to scores
Reverse(seq) == [j \in 1..Len(seq) |-> seq[Len(seq) + 1 - j]]

RerankAnswers(documents, top_k) ==
    {FirstN(documents, top_k), FirstN(Reverse(documents), top_k)}

\* what a compressor answers for documents: all of them marked compressed,
\* or none of them
CompressAnswers(documents) ==
    {<<>>,
     [j \in 1..Len(documents) |->
         [page_content |-> documents[j].page_content,
          metadata |-> DictUpdate(documents[j].metadata, [compressed |-> TRUE])]]}

AdvancedRetrieve ==
    /\ \E query \in Queries :
          LET self == retrievers.advanced
              limit == IF self.use_reranker THEN self.initial_k ELSE self.top_k
          IN  \/ \E results \in SearchAnswers(limit) :
                     \E reranked \in RerankAnswers(RetrievedDocs(results), self.top_k) :
                         \E compressed \in CompressAnswers(IF self.use_reranker
                                                           THEN reranked
                                                           ELSE RetrievedDocs(results)) :
                             \E fail \in {"none", "compress"} :
                                 advanced_retrieve(query, results, reranked, compressed, fail)
              \/ advanced_retrieve(query, <<>>, <<>>, <<>>, "search")
    /\ UNCHANGED <<ctxVars, storeVars, rerankVars, ingestVars, appVars>>

HybridRetrieve ==
    /\ \E query \in HybridQueries :
          \/ \E semantic_results \in SearchAnswers(retrievers.hybrid.top_k * 2) :
                 hybrid_retrieve(query, semantic_results, "none")
          \/ hybrid_retrieve(query, <<>>, "search")
    /\ UNCHANGED <<ctxVars, storeVars, rerankVars, ingestVars, appVars>>

\* ------------------------------------------------------------------------
\* TextChunker (rag-agent/src/rag/ingestion/chunker.py)
\* A text is the sequence of its characters.
\* ------------------------------------------------------------------------
\* c.isspace() for the characters of the model
IsSpace(c) == c \in {" ", "\n"}

\* s.strip()
StripChars(s) ==
    LET solid == {i \in 1..Len(s) : ~IsSpace(s[i])}
    IN  IF solid = {} THEN <<>>
        ELSE SubSeq(s, CHOOSE i \in solid : \A k \in solid : i <= k,
                       CHOOSE i \in solid : \A k \in solid : i >= k)

\* TextChunker._clean_text
CleanText(s) ==
    LET \* re.sub(r" +", " ", t): a blank behind a blank goes
        squash_spaces(t) ==
            AtPlaces(t, {i \in 1..Len(t) : ~(t[i] = " " /\ i > 1 /\ t[i - 1] = " ")})
        \* re.sub(r"\n{3,}", "\n\n", t): a line break behind two line breaks goes
        squash_newlines(t) ==
            AtPlaces(t, {i \in 1..Len(t) :
                            ~(t[i] = "\n" /\ i > 2 /\ t[i - 1] = "\n" /\ t[i - 2] = "\n")})
        \* "\n".join(line.strip() for line in t.split("\n")): a blank with
        \* nothing but blanks between it and the start or the end of its line goes
        leading(t, i) == \E a \in 0..(i - 1) :
                             /\ a = 0 \/ t[a] = "\n"
                             /\ \A k \in (a + 1)..i : t[k] = " "
        trailing(t, i) == \E b \in (i + 1)..(Len(t) + 1) :
                              /\ b = Len(t) + 1 \/ t[b] = "\n"
                              /\ \A k \in i..(b - 1) : t[k] = " "
        strip_lines(t) ==
            AtPlaces(t, {i \in 1..Len(t) : ~(leading(t, i) \/ trailing(t, i))})
        \* re.sub(r"[\x00-\x08\x0b\x0c\x0e-\x1f\x7f]", "", t)
        strip_control(t) == AtPlaces(t, {i \in 1..Len(t) : t[i] # "^"})
    IN  StripChars(strip_control(strip_lines(squash_newlines(squash_spaces(s)))))

\* the characters _post_process_chunk takes for orphaned punctuation
OrphanedPunctuation == {".", ",", ";", ":", "!", "?", ")", "]", "}"}

\* TextChunker._post_process_chunk
RECURSIVE DropOrphans(_)
DropOrphans(chunk) ==
    IF chunk # <<>> /\ Head(chunk) \in OrphanedPunctuation
    THEN DropOrphans(StripChars(Tail(chunk)))
    ELSE chunk

PostProcessChunk(chunk) == DropOrphans(StripChars(chunk))

\* the ways to cut s into consecutive pieces of at most size characters
RECURSIVE Cuts(_, _)
Cuts(s, size) ==
    IF s = <<>> THEN {<<>>}
    ELSE UNION {{<<SubSeq(s, 1, k)>> \o rest : rest \in Cuts(SubSeq(s, k + 1, Len(s)), size)} :
                   k \in 1..Min(size, Len(s))}

\* [c.strip() for c in chunks], the empty ones left out
RECURSIVE StrippedChunks(_)
StrippedChunks(chunks) ==
    IF chunks = <<>> THEN <<>>
    ELSE IF StripChars(Head(chunks)) = <<>> THEN StrippedChunks(Tail(chunks))
    ELSE <<StripChars(Head(chunks))>> \o StrippedChunks(Tail(chunks))

\* self._splitter.split_text(s): the lists RecursiveCharacterTextSplitter can
\* return.  A text that fits into chunk_size is merged back into one chunk
\* and stripped; where a longer text is cut is the library's choice.
SplitterChunks(self, s) ==
    IF Len(s) <= self.chunk_size
    THEN {StrippedChunks(<<s>>)}
    ELSE {StrippedChunks(cut) : cut \in Cuts(s, self.chunk_size)}

\* [self._post_process_chunk(chunk) for chunk in chunks], then
\* [c for c in processed_chunks if c.strip()]
RECURSIVE FilteredChunks(_)
FilteredChunks(chunks) ==
    IF chunks = <<>> THEN <<>>
    ELSE LET c == PostProcessChunk(Head(chunks))
         IN  IF StripChars(c) = <<>> THEN FilteredChunks(Tail(chunks))
             ELSE <<c>> \o FilteredChunks(Tail(chunks))

ChunkReport(op, arg, result) == [op |-> op, arg |-> arg, result |-> result]

NewChunker(chunk_size, chunk_overlap) ==
    [chunk_size |-> chunk_size, chunk_overlap |-> chunk_overlap]

\* TextChunker.split_text(text)
split_text(chunks) ==
    LET self == chunker
    IN  /\ IF input_text = <<>> \/ StripChars(input_text) = <<>>
           THEN chunked' = ChunkReport("split_text", input_text, <<>>)
           ELSE /\ chunks \in SplitterChunks(self, CleanText(input_text))
                /\ chunked' = ChunkReport("split_text", input_text, FilteredChunks(chunks))
        /\ UNCHANGED <<chunker, input_text>>

SplitText ==
    /\ \E chunks \in SplitterChunks(chunker, CleanText(input_text)) : split_text(chunks)
    /\ UNCHANGED <<ctxVars, storeVars, rerankVars, retrVars, appVars>>

\* TextChunker._clean_text(text)
clean_text(t) ==
    /\ chunked' = ChunkReport("_clean_text", t, CleanText(t))
    /\ UNCHANGED <<chunker, input_text>>

\* _clean_text of the text, or of what the last _clean_text returned
CleanTextCall ==
    /\ \E t \in {input_text} \cup (IF chunked.op = "_clean_text" THEN {chunked.result} ELSE {}) :
           clean_text(t)
    /\ UNCHANGED <<ctxVars, storeVars, rerankVars, retrVars, appVars>>

\* a chunker nobody has called, with the default sizes
IdleChunker ==
    /\ chunker = NewChunker(1000, 200)
    /\ input_text = <<>>
    /\ chunked = ChunkReport("none", <<>>, <<>>)

\* ------------------------------------------------------------------------
\* CodeChunker (rag-agent/src/rag/ingestion/chunker.py)
\* A code is the list of its lines, code.split("\n").
\* ------------------------------------------------------------------------
\* "\n".join(lines)
RECURSIVE JoinLines(_)
JoinLines(lines) ==
    IF lines = <<>> THEN ""
    ELSE IF Len(lines) = 1 THEN lines[1]
    ELSE lines[1] \o "\n" \o JoinLines(Tail(lines))

\* sum(len(l) + 1 for l in lines)
RECURSIVE SizeOfLines(_)
SizeOfLines(lines) ==
    IF lines = <<>> THEN 0 ELSE Len(Head(lines)) + 1 + SizeOfLines(Tail(lines))

\* current_chunk[-(self.chunk_overlap // 50):] if self.chunk_overlap else []:
\* for an overlap below 50 the slice [-0:] is the whole list
OverlapLines(self, current_chunk) ==
    IF self.chunk_overlap = 0 THEN <<>>
    ELSE IF self.chunk_overlap \div 50 = 0 THEN current_chunk
    ELSE LastN(current_chunk, self.chunk_overlap \div 50)

\* the loop of _split_by_lines over the lines left; a chunk is reported with
\* the lines joined into it
RECURSIVE SplitByLines(_, _, _, _)
SplitByLines(self, lines, chunks, current_chunk) ==
    IF lines = <<>>
    THEN IF current_chunk # <<>>
         THEN Append(chunks, [text |-> JoinLines(current_chunk), lines |-> current_chunk])
         ELSE chunks
    ELSE LET line == Head(lines)
             line_size == Len(line) + 1
             current_size == SizeOfLines(current_chunk)
         IN  IF current_size + line_size > self.chunk_size /\ current_chunk # <<>>
             THEN SplitByLines(self, Tail(lines),
                               Append(chunks, [text |-> JoinLines(current_chunk),
                                               lines |-> current_chunk]),
                               Append(OverlapLines(self, current_chunk), line))
             ELSE SplitByLines(self, Tail(lines), chunks, Append(current_chunk, line))

NewCodeChunker(chunk_size, chunk_overlap) ==
    [chunk_size |-> chunk_size, chunk_overlap |-> chunk_overlap]

\* CodeChunker._split_by_lines(code)
split_by_lines ==
    /\ code_chunked' = [op |-> "_split_by_lines",
                        result |-> SplitByLines(code_chunker, code_lines, <<>>, <<>>)]
    /\ UNCHANGED <<code_chunker, code_lines>>

SplitByLinesCall ==
    /\ split_by_lines
    /\ UNCHANGED <<libVars, orchVars, agentVars>>

\* a code chunker nobody has called, with the default sizes
IdleCode ==
    /\ code_chunker = NewCodeChunker(1500, 100)
    /\ code_lines = <<"">>
    /\ code_chunked = [op |-> "none", result |-> <<>>]

\* ------------------------------------------------------------------------
\* AgentOrchestrator (rag-agent/src/agents/orchestrator.py)
\* ------------------------------------------------------------------------
\* None for an optional string
NoneStr == "<None>"

\* {t.value for t in AgentType}
AgentTypes == {"rag", "research", "data_entry", "support_triage", "report"}

\* result.content.strip().lower() of the replies of the router LLM
RouterReplyName(content) ==
    CASE content = " Research " -> "research"
      [] OTHER -> content

\* route_request, given that the router LLM replied
RoutedType(content) ==
    IF RouterReplyName(content) \in AgentTypes THEN RouterReplyName(content) ELSE "rag"

\* AgentResult(...)
AgentResult(answer, success, error, metadata) ==
    [answer |-> answer, sources |-> <<>>, success |-> success, error |-> error,
     metadata |-> metadata]

\* the result an agent hands back, or the message of what it raises
AgentOutcomes ==
    {[raises |-> FALSE, result |-> AgentResult("A", TRUE, NoneStr, EmptyDict)],
     [raises |-> FALSE, result |-> AgentResult("partial", FALSE, "Failed", EmptyDict)],
     [raises |-> TRUE, message |-> "Agent failed"]}

\* mutant of RunAgent: what the agent raises is let through
RunAgent_Propagate(agent_type, request, outcome) ==
    IF outcome.raises
    THEN [raised |-> TRUE, result |-> AgentResult("", FALSE, outcome.message, EmptyDict)]
    ELSE [raised |-> FALSE,
          result |-> [outcome.result EXCEPT
                          !.metadata = DictUpdate(@, [routed_to |-> agent_type])]]

\* the try block of run: the agent is run, its result gets routed_to; what it
\* raises becomes a failure result
RunAgent(agent_type, request, outcome) ==
    IF outcome.raises
    THEN [raised |-> FALSE,
          result |-> AgentResult("", FALSE, outcome.message, [routed_to |-> agent_type])]
    ELSE [raised |-> FALSE,
          result |-> [outcome.result EXCEPT
                          !.metadata = DictUpdate(@, [routed_to |-> agent_type])]]

\* the keyword run passes the request under
RequestKeyword(agent_type) ==
    CASE agent_type = "support_triage" -> "ticket"
      [] agent_type \in {"data_entry", "report"} -> "request"
      [] OTHER -> "question"

\* AgentOrchestrator.run(request, agent_type): what it returns or that it
\* raised, the agents built after it and the call it made to an agent
run(built, request, agent_type, route, outcome) ==
    IF agent_type \in {NoneStr, ""} /\ route.raises
    THEN [raised |-> TRUE, result |-> NoneStr, agents |-> built, calls |-> <<>>]
    ELSE LET routed == IF agent_type \in {NoneStr, ""} THEN RoutedType(route.content)
                       ELSE agent_type
         IN  IF routed \notin built /\ routed \notin AgentTypes
             THEN \* _get_agent raises ValueError
                  [raised |-> TRUE, result |-> NoneStr, agents |-> built, calls |-> <<>>]
             ELSE LET ran == RunAgent(routed, request, outcome)
                  IN  [raised |-> ran.raised, result |-> ran.result,
                       agents |-> built \cup {routed},
                       calls |-> <<[agent_type |-> routed,
                                    keyword |-> RequestKeyword(routed),
                                    request |-> request]>>]

\* mutant of StepRequest: an empty answer is appended as well
StepRequest_AlwaysAppended(step, has_previous, previous_answer) ==
    IF step.use_previous /\ has_previous
    THEN step.request \o "\n\nContext from previous step:\n" \o previous_answer
    ELSE step.request

\* the request of a step: with use_previous, a previous result and an answer
\* in it the answer is appended
StepRequest(step, has_previous, previous_answer) ==
    IF step.use_previous /\ has_previous /\ previous_answer # ""
    THEN step.request \o "\n\nContext from previous step:\n" \o previous_answer
    ELSE step.request

\* the loop of run_workflow over the steps left
RECURSIVE RunSteps(_, _, _, _, _, _)
RunSteps(built, steps, i, results, previous_answer, calls) ==
    IF steps = <<>>
    THEN [raised |-> FALSE, result |-> results, agents |-> built, calls |-> calls]
    ELSE LET step == Head(steps)
             request == StepRequest(step, i > 0, previous_answer)
             ran == run(built, request, step.agent_type, step.route, step.outcome)
         IN  IF ran.raised
             THEN [raised |-> TRUE, result |-> NoneStr, agents |-> ran.agents,
                   calls |-> calls \o ran.calls]
             ELSE LET result == [ran.result EXCEPT
                                     !.metadata = DictUpdate(@, [workflow_step |-> i + 1])]
                  IN  IF ~result.success /\ step.stop_on_failure
                      THEN [raised |-> FALSE, result |-> Append(results, result),
                            agents |-> ran.agents, calls |-> calls \o ran.calls]
                      ELSE RunSteps(ran.agents, Tail(steps), i + 1, Append(results, result),
                                    result.answer, calls \o ran.calls)

OrchReport(op, ran) ==
    [op |-> op, raised |-> ran.raised, result |-> ran.result, calls |-> ran.calls]

\* replies of the router LLM: an agent type, none, or no reply
RouterReplies ==
    {[raises |-> FALSE, content |-> c] : c \in {" Research ", "poetry"}}
        \cup {[raises |-> TRUE, content |-> ""]}

\* AgentOrchestrator.run on the first step of the workflow: with the agent
\* type of the step or that of the triage agent, or with none and a reply of
\* the router
Run ==
    /\ workflow # <<>>
    /\ \E agent_type \in {workflow[1].agent_type, "support_triage", NoneStr},
          route \in RouterReplies :
           LET ran == run(agents, workflow[1].request, agent_type, route, workflow[1].outcome)
           IN  /\ agent_type # NoneStr => route = [raises |-> TRUE, content |-> ""]
               /\ orch_out' = OrchReport("run", ran) @@ [agent_type |-> agent_type]
               /\ agents' = ran.agents
    /\ UNCHANGED <<workflow, libVars, codeVars, agentVars>>

\* AgentOrchestrator.run_workflow(workflow)
RunWorkflow ==
    /\ LET ran == RunSteps(agents, workflow, 0, <<>>, "", <<>>)
       IN  /\ orch_out' = OrchReport("run_workflow", ran) @@ [agent_type |-> NoneStr]
           /\ agents' = ran.agents
    /\ UNCHANGED <<workflow, libVars, codeVars, agentVars>>

\* an orchestrator nobody has called
IdleOrch ==
    /\ agents = {}
    /\ workflow = <<>>
    /\ orch_out = [op |-> "none", raised |-> FALSE, result |-> <<>>, calls |-> <<>>,
                   agent_type |-> NoneStr]

\* ------------------------------------------------------------------------
\* RAGAgent (src/rag-agent/src/agents/rag_agent.py)
\* ------------------------------------------------------------------------

\* the values of ActionType
ActionTypes == {"retrieve", "generate", "refine", "search", "done", "error"}

\* the conditional edges that leave the route node; END is "end"
RouteEdges ==
    [retrieve |-> "retrieve", generate |-> "generate", refine |-> "refine",
     done |-> "end", error |-> "end"]

\* _route_node with the limit tested one iteration late
route_node_LateLimit(state, max_iterations, content) ==
    LET stripped == IF content = " Done\n" THEN "Done" ELSE content
        lowered == IF stripped = "Done" THEN "done" ELSE stripped
        action == IF lowered \in ActionTypes THEN lowered ELSE "done"
    IN  IF state.iteration > max_iterations
        THEN [state EXCEPT !.next_action = "done"]
        ELSE IF state.context = "" THEN [state EXCEPT !.next_action = "retrieve"]
        ELSE IF state.answer = "" THEN [state EXCEPT !.next_action = "generate"]
        ELSE [state EXCEPT !.next_action = action]

\* _route_node: done at the iteration limit, retrieve without a context,
\* generate without an answer, else the router's reply, stripped and
\* lower-cased, when it is a value of ActionType, and done when it is not
route_node(state, max_iterations, content) ==
    LET stripped == IF content = " Done\n" THEN "Done" ELSE content
        lowered == IF stripped = "Done" THEN "done" ELSE stripped
        action == IF lowered \in ActionTypes THEN lowered ELSE "done"
    IN  IF state.iteration >= max_iterations
        THEN [state EXCEPT !.next_action = "done"]
        ELSE IF state.context = "" THEN [state EXCEPT !.next_action = "retrieve"]
        ELSE IF state.answer = "" THEN [state EXCEPT !.next_action = "generate"]
        ELSE [state EXCEPT !.next_action = action]

\* what the router LLM answers, or that it raises
RouterContents == {"refine", " Done\n", "retrieve", "generate", "search", "error", "continue"}

\* run: the initial state enters the graph at its entry point, route
RagRun ==
    /\ rag_node \in {"idle", "end", "raised"}
    /\ rag_state' = [context |-> "", answer |-> "", next_action |-> "", iteration |-> 0]
    /\ rag_node' = "route"
    /\ rag_executed' = 0
    /\ UNCHANGED <<rag_config, libVars, codeVars, orchVars, entryVars, chainVars>>

\* the route node and the conditional edge taken after it; the router is
\* asked only with a context and an answer below the limit, and may raise;
\* a next_action without an edge ends the run with an error of the graph
RouteNode ==
    /\ rag_node = "route"
    /\ \E raises \in BOOLEAN, content \in RouterContents :
          LET asked == /\ rag_state.iteration < rag_config.max_iterations
                       /\ rag_state.context # ""
                       /\ rag_state.answer # ""
              state == route_node(rag_state, rag_config.max_iterations, content)
          IN  IF asked /\ raises
              THEN rag_node' = "raised" /\ UNCHANGED rag_state
              ELSE /\ rag_state' = state
                   /\ rag_node' = IF state.next_action \in DOMAIN RouteEdges
                                  THEN RouteEdges[state.next_action]
                                  ELSE "raised"
    /\ UNCHANGED <<rag_config, rag_executed, libVars, codeVars, orchVars, entryVars, chainVars>>

\* _retrieve_node: the formatted documents become the context (format_docs
\* gives a fixed sentence for no documents); the retriever may raise
RetrieveNode ==
    /\ rag_node = "retrieve"
    /\ rag_executed' = rag_executed + 1
    /\ \E raises \in BOOLEAN, context \in {"No relevant context found.", "[1] text"} :
          IF raises
          THEN rag_node' = "raised" /\ UNCHANGED rag_state
          ELSE /\ rag_state' = [rag_state EXCEPT !.context = context,
                                                !.iteration = rag_state.iteration + 1]
               /\ rag_node' = "route"
    /\ UNCHANGED <<rag_config, libVars, codeVars, orchVars, entryVars, chainVars>>

\* _generate_node: the LLM's reply becomes the answer; the LLM may raise
GenerateNode ==
    /\ rag_node = "generate"
    /\ rag_executed' = rag_executed + 1
    /\ \E raises \in BOOLEAN, content \in {"", "answer"} :
          IF raises
          THEN rag_node' = "raised" /\ UNCHANGED rag_state
          ELSE /\ rag_state' = [rag_state EXCEPT !.answer = content,
                                                !.iteration = rag_state.iteration + 1]
               /\ rag_node' = "route"
    /\ UNCHANGED <<rag_config, libVars, codeVars, orchVars, entryVars, chainVars>>

\* _refine_node: the LLM's reply replaces the answer; the LLM may raise
RefineNode ==
    /\ rag_node = "refine"
    /\ rag_executed' = rag_executed + 1
    /\ \E raises \in BOOLEAN, content \in {"", "refined"} :
          IF raises
          THEN rag_node' = "raised" /\ UNCHANGED rag_state
          ELSE /\ rag_state' = [rag_state EXCEPT !.answer = content,
                                                !.iteration = rag_state.iteration + 1]
               /\ rag_node' = "route"
    /\ UNCHANGED <<rag_config, libVars, codeVars, orchVars, entryVars, chainVars>>

\* a RAG agent nobody has run: AgentConfig's max_iterations is 10
IdleRag ==
    /\ rag_config = [max_iterations |-> 10]
    /\ rag_state = [context |-> "", answer |-> "", next_action |-> "", iteration |-> 0]
    /\ rag_node = "idle"
    /\ rag_executed = 0

\* ------------------------------------------------------------------------
\* DataEntryAgent (src/rag-agent/src/agents/business/data_entry_agent.py)
\* ------------------------------------------------------------------------

\* _validation_router: valid, else max_retries from iteration 3 on, else invalid
validation_router(state) ==
    IF state.valid THEN "valid"
    ELSE IF state.iteration >= 3 THEN "max_retries"
    ELSE "invalid"

\* the conditional edges that leave validate_data
ValidationEdges ==
    [valid |-> "transform_data", invalid |-> "extract_data", max_retries |-> "finalize"]

\* run: the initial state enters the graph at analyze_request
DataEntryRun ==
    /\ entry_node \in {"idle", "end", "raised"}
    /\ entry_state' = [documents |-> 0, extracted_data |-> "{}", valid |-> FALSE,
                       iteration |-> 0, status |-> "started", success |-> FALSE]
    /\ entry_node' = "analyze_request"
    /\ entry_extracts' = 0
    /\ UNCHANGED <<libVars, codeVars, orchVars, ragVars, chainVars>>

\* _analyze_request_node: the LLM is asked (it may raise), iteration is set to 0
AnalyzeRequestNode ==
    /\ entry_node = "analyze_request"
    /\ \E raises \in BOOLEAN :
          IF raises
          THEN entry_node' = "raised" /\ UNCHANGED entry_state
          ELSE /\ entry_state' = [entry_state EXCEPT !.iteration = 0, !.status = "analyzing"]
               /\ entry_node' = "search_documents"
    /\ UNCHANGED <<entry_extracts, libVars, codeVars, orchVars, ragVars, chainVars>>

\* _search_documents_node: the documents the searches found, possibly none
SearchDocumentsNode ==
    /\ entry_node = "search_documents"
    /\ \E found \in 0..MaxDocs :
          entry_state' = [entry_state EXCEPT !.documents = found, !.status = "documents_found"]
    /\ entry_node' = "extract_data"
    /\ UNCHANGED <<entry_extracts, libVars, codeVars, orchVars, ragVars, chainVars>>

\* _extract_data_node: without documents it returns at once and leaves
\* iteration alone; with documents the extract tool runs (its data is empty
\* when it fails) and iteration goes up by one
ExtractDataNode ==
    /\ entry_node = "extract_data"
    /\ entry_extracts < MaxExtracts
    /\ entry_extracts' = entry_extracts + 1
    /\ IF entry_state.documents = 0
       THEN entry_state' = [entry_state EXCEPT !.extracted_data = "{}", !.status = "no_documents"]
       ELSE \E data \in {"{}", "{name: x}"} :
               entry_state' = [entry_state EXCEPT !.extracted_data = data,
                                                  !.status = "data_extracted",
                                                  !.iteration = entry_state.iteration + 1]
    /\ entry_node' = "validate_data"
    /\ UNCHANGED <<libVars, codeVars, orchVars, ragVars, chainVars>>

\* _validate_data_node and the conditional edge taken after it: whatever the
\* validate tool reports (not valid when the tool fails)
ValidateDataNode ==
    /\ entry_node = "validate_data"
    /\ \E valid \in BOOLEAN :
          LET state == [entry_state EXCEPT
                            !.valid = valid,
                            !.status = IF valid THEN "validated" ELSE "validation_failed"]
          IN  /\ entry_state' = state
              /\ entry_node' = ValidationEdges[validation_router(state)]
    /\ UNCHANGED <<entry_extracts, libVars, codeVars, orchVars, ragVars, chainVars>>

\* _transform_data_node
TransformDataNode ==
    /\ entry_node = "transform_data"
    /\ entry_state' = [entry_state EXCEPT !.status = "transformed"]
    /\ entry_node' = "finalize"
    /\ UNCHANGED <<entry_extracts, libVars, codeVars, orchVars, ragVars, chainVars>>

\* _finalize_node: success is what the last validation reported
FinalizeNode ==
    /\ entry_node = "finalize"
    /\ entry_state' = [entry_state EXCEPT !.success = entry_state.valid, !.status = "completed"]
    /\ entry_node' = "end"
    /\ UNCHANGED <<entry_extracts, libVars, codeVars, orchVars, ragVars, chainVars>>

\* a data-entry agent nobody has run
IdleEntry ==
    /\ entry_state = [documents |-> 0, extracted_data |-> "{}", valid |-> FALSE,
                      iteration |-> 0, status |-> "started", success |-> FALSE]
    /\ entry_node = "idle"
    /\ entry_extracts = 0

\* ------------------------------------------------------------------------
\* ConversationalRAGChain (src/rag-agent/src/rag/chain.py)
\* ------------------------------------------------------------------------

\* the HumanMessage and the AIMessage appended after an answered question
Turn(question, answer) ==
    <<[role |-> "user", content |-> question], [role |-> "assistant", content |-> answer]>>

\* the questions asked, and the answers of the chain
Questions == {"q1", "q2"}

\* invoke: retrieval and the chain may raise, and then nothing is stored;
\* else the turn is appended and a history longer than max_history * 2 is
\* cut to chat_history[-max_history * 2:], which is the whole list for 0
Invoke ==
    /\ Len(chat_history) + 2 <= MaxMessages
    /\ \E question \in Questions, raises \in BOOLEAN, answer \in {"", "a"} :
          IF raises
          THEN UNCHANGED chat_history
          ELSE LET appended == chat_history \o Turn(question, answer)
               IN  chat_history' =
                       IF Len(appended) > max_history * 2
                       THEN (IF max_history * 2 = 0 THEN appended
                             ELSE LastN(appended, max_history * 2))
                       ELSE appended
    /\ UNCHANGED <<max_history, streaming, libVars, codeVars, orchVars, ragVars, entryVars>>

\* stream, up to the loop over the chain's tokens: retrieval may raise
StreamBegin ==
    /\ ~streaming.open
    /\ \E question \in Questions, raises \in BOOLEAN :
          streaming' = IF raises THEN streaming
                       ELSE [open |-> TRUE, question |-> question, full_response |-> ""]
    /\ UNCHANGED <<chat_history, max_history, libVars, codeVars, orchVars, ragVars, entryVars>>

\* stream, one round of the loop: a token is added to full_response and
\* yielded, or the chain raises and the generator ends with nothing stored
StreamToken ==
    /\ streaming.open
    /\ Len(streaming.full_response) < MaxTokens
    /\ \E raises \in BOOLEAN :
          streaming' = IF raises
                       THEN [open |-> FALSE, question |-> "", full_response |-> ""]
                       ELSE [streaming EXCEPT !.full_response = streaming.full_response \o "a"]
    /\ UNCHANGED <<chat_history, max_history, libVars, codeVars, orchVars, ragVars, entryVars>>

\* stream, after the last token: the turn is appended, and nothing is cut
StreamFinish ==
    /\ streaming.open
    /\ Len(chat_history) + 2 <= MaxMessages
    /\ chat_history' = chat_history \o Turn(streaming.question, streaming.full_response)
    /\ streaming' = [open |-> FALSE, question |-> "", full_response |-> ""]
    /\ UNCHANGED <<max_history, libVars, codeVars, orchVars, ragVars, entryVars>>

\* the consumer of a stream stops before the last token: the generator is
\* closed where it waits and stores nothing
StreamAbandon ==
    /\ streaming.open
    /\ streaming' = [open |-> FALSE, question |-> "", full_response |-> ""]
    /\ UNCHANGED <<chat_history, max_history, libVars, codeVars, orchVars, ragVars, entryVars>>

\* clear_history
ClearHistory ==
    /\ chat_history' = <<>>
    /\ UNCHANGED <<max_history, streaming, libVars, codeVars, orchVars, ragVars, entryVars>>

\* a conversational chain as constructed: max_history is 10
IdleChain ==
    /\ chat_history = <<>>
    /\ max_history = 10
    /\ streaming = [open |-> FALSE, question |-> "", full_response |-> ""]

\* no agent graph and no chain has been run
IdleAgents == IdleRag /\ IdleEntry /\ IdleChain

\* nothing built on the library has been called
IdleApp == IdleCode /\ IdleOrch /\ IdleAgents

\* ------------------------------------------------------------------------
\* Specifications
\* ------------------------------------------------------------------------
\* a vector store nobody has constructed a client for
IdleStore ==
    /\ qdrant_host = "memory"
    /\ client = "none"
    /\ embeddings = "none"
    /\ collection = FALSE
    /\ points = {}
    /\ init_ok = FALSE
    /\ last = [op |-> "none", args |-> EmptyDict, outcome |-> "ok",
               result |-> 0, embed_calls |-> 0, store_calls |-> <<>>,
               upserts |-> <<>>, pre_points |-> {},
               pre_collection |-> FALSE, pre_init_ok |-> FALSE]

\* rerankers and compressors as the factories build them by default
IdleRerank ==
    /\ rerankers = NewRerankers(NoneInt)
    /\ compressors = NewCompressors(10)
    /\ out = CallReport("none", EmptyDict, "ok", <<>>, 0, 0, <<>>)

\* retrievers nobody has called; the hybrid retriever with the default top_k
\* scaled down, the advanced retriever with its switches
NewRetrievers(top_k, use_reranker, use_compressor) ==
    [hybrid |-> NewHybrid(top_k),
     advanced |-> NewAdvanced(use_reranker, use_compressor)]

IdleRetrieval ==
    /\ retrievers = NewRetrievers(2, TRUE, FALSE)
    /\ ret = RetrievalReport("none", EmptyDict, "ok", <<>>, <<>>)

\* the contextual retriever alone
InitContextSpec == InitContext /\ IdleApp /\ IdleChunker /\ IdleStore /\ IdleRerank /\ IdleRetrieval

NextContext == AddContext

SpecContext == InitContextSpec /\ [][NextContext]_vars

\* the contextual retriever, its context and its retrieve calls
NextContextual ==
    \/ AddContextTurn
    \/ ContextualRetrieve

SpecContextual == InitContextSpec /\ [][NextContextual]_vars

\* the vector store and its callers
InitStoreSpec == InitContext /\ IdleApp /\ IdleChunker /\ InitStore /\ IdleRerank /\ IdleRetrieval

NextStore ==
    \/ Initialize
    \/ AddDocuments
    \/ Search
    \/ DeleteDocument
    \/ ListDocuments
    \/ CountDocuments

SpecStore == InitStoreSpec /\ [][NextStore]_vars

\* add_documents with chunk metadata and extra metadata
NextAdd ==
    \/ Initialize
    \/ AddLoadedDocuments

SpecAdd == InitStoreSpec /\ [][NextAdd]_vars

\* the cross-encoder reranker alone, constructed with or without top_k
InitRerankSpec ==
    InitContext /\ IdleApp /\ IdleChunker /\ IdleStore /\ InitRerank /\ compressors = NewCompressors(10) /\ IdleRetrieval

NextCrossEncoder == CrossEncoderRerank(CandidateLists)

SpecCrossEncoder == InitRerankSpec /\ [][NextCrossEncoder]_vars

\* the reranker of the external service alone
NextCohere == CohereRerank(CandidateLists)

SpecCohere == InitRerankSpec /\ [][NextCohere]_vars

\* the LLM reranker alone
NextLLMRerank == LLMRerank(CandidateLists)

SpecLLMRerank == InitRerankSpec /\ [][NextLLMRerank]_vars

\* the cross-encoder and the LLM reranker on passages of every kind of
\* metadata
NextRerankMetadata ==
    \/ CrossEncoderRerank(MetadataLists)
    \/ LLMRerank(MetadataLists)

SpecRerankMetadata == InitRerankSpec /\ [][NextRerankMetadata]_vars

\* every reranker and every compressor, called with no passage or with one
NextStrategies ==
    \/ CrossEncoderRerank(ShortLists)
    \/ CohereRerank(ShortLists)
    \/ LLMRerank(ShortLists)
    \/ LLMCompress(ShortPassageLists)
    \/ EmbeddingCompress(ShortPassageLists, SentenceSims)
    \/ ExtractiveCompress(ShortPassageLists)

SpecStrategies == InitRerankSpec /\ [][NextStrategies]_vars

\* nobody has called a reranker or a compressor
IdleCallers ==
    /\ InitContext /\ IdleApp /\ IdleChunker /\ IdleStore /\ IdleRetrieval
    /\ rerankers = NewRerankers(NoneInt)
    /\ out = CallReport("none", EmptyDict, "ok", <<>>, 0, 0, <<>>)

\* the compressors as constructed
InitCompressSpec == IdleCallers /\ InitCompress

\* the LLM compressor alone
NextLLMCompress == LLMCompress(PlacedPassageLists)

SpecLLMCompress == InitCompressSpec /\ [][NextLLMCompress]_vars

\* similarities with S2 at the threshold and S3 above it
QualifyingSims == {sim \in SentenceSims : sim[S2] = 7 /\ sim[S3] = 9}

\* the embedding compressor alone
NextEmbeddingCompress ==
    EmbeddingCompress(SentencePassageLists \cup PlacedPassageLists, QualifyingSims)

SpecEmbeddingCompress == InitCompressSpec /\ [][NextEmbeddingCompress]_vars

\* the three compressors, the LLM one on one passage at most
NextCompress ==
    \/ LLMCompress(ShortPassageLists)
    \/ EmbeddingCompress(PlacedPassageLists, SentenceSims)
    \/ ExtractiveCompress(PlacedPassageLists)

SpecCompress == InitCompressSpec /\ [][NextCompress]_vars

\* the texts of up to MaxTextLen characters
InputTexts == UNION {[1..n -> TextChars] : n \in 0..MaxTextLen}

\* a chunker of chunk_size 3 or 1000 with a text to split
InitChunkerSpec ==
    /\ InitContext /\ IdleApp /\ IdleStore /\ IdleRerank /\ IdleRetrieval
    /\ \E chunk_size \in {3, 1000} : chunker = NewChunker(chunk_size, 1)
    /\ input_text \in InputTexts
    /\ chunked = ChunkReport("none", <<>>, <<>>)

NextChunker ==
    \/ SplitText
    \/ CleanTextCall

SpecChunker == InitChunkerSpec /\ [][NextChunker]_vars

\* a code chunker of chunk_size 4 without overlap, or with an overlap of 1,
\* 50 or 100, and a code of up to MaxLines lines
InitCodeSpec ==
    /\ InitContext /\ IdleChunker /\ IdleStore /\ IdleRerank /\ IdleRetrieval /\ IdleOrch
    /\ IdleAgents
    /\ \E chunk_overlap \in {0, 1, 50, 100} : code_chunker = NewCodeChunker(4, chunk_overlap)
    /\ code_lines \in UNION {[1..n -> CodeLines] : n \in 1..MaxLines}
    /\ code_chunked = [op |-> "none", result |-> <<>>]

NextCode == SplitByLinesCall

SpecCode == InitCodeSpec /\ [][NextCode]_vars

\* the steps of a workflow, each with what its agent does; for the second
\* agent type there is no agent
WorkflowSteps ==
    [agent_type : {"rag", "poetry"}, request : {"Step"},
     use_previous : BOOLEAN, stop_on_failure : BOOLEAN,
     route : {[raises |-> FALSE, content |-> "rag"]}, outcome : AgentOutcomes]

\* an orchestrator with a workflow of up to MaxSteps steps
InitOrchSpec ==
    /\ InitContext /\ IdleChunker /\ IdleStore /\ IdleRerank /\ IdleRetrieval /\ IdleCode
    /\ IdleAgents
    /\ agents = {}
    /\ workflow \in UNION {[1..n -> WorkflowSteps] : n \in 0..MaxSteps}
    /\ orch_out = [op |-> "none", raised |-> FALSE, result |-> <<>>, calls |-> <<>>,
                   agent_type |-> NoneStr]

NextOrch ==
    \/ Run
    \/ RunWorkflow

SpecOrch == InitOrchSpec /\ [][NextOrch]_vars

\* a RAG agent whose configuration allows up to MaxIterations iterations
InitRagSpec ==
    /\ InitContext /\ IdleChunker /\ IdleStore /\ IdleRerank /\ IdleRetrieval
    /\ IdleCode /\ IdleOrch /\ IdleEntry /\ IdleChain
    /\ \E max_iterations \in 0..MaxIterations : rag_config = [max_iterations |-> max_iterations]
    /\ rag_state = [context |-> "", answer |-> "", next_action |-> "", iteration |-> 0]
    /\ rag_node = "idle"
    /\ rag_executed = 0

NextRag ==
    \/ RagRun
    \/ RouteNode
    \/ RetrieveNode
    \/ GenerateNode
    \/ RefineNode

SpecRag == InitRagSpec /\ [][NextRag]_vars

\* the graph runs every node it has scheduled, and a caller starts runs
SpecRagFair == SpecRag /\ WF_vars(NextRag)

InitEntrySpec ==
    /\ InitContext /\ IdleChunker /\ IdleStore /\ IdleRerank /\ IdleRetrieval
    /\ IdleCode /\ IdleOrch /\ IdleRag /\ IdleChain /\ IdleEntry

NextEntry ==
    \/ DataEntryRun
    \/ AnalyzeRequestNode
    \/ SearchDocumentsNode
    \/ ExtractDataNode
    \/ ValidateDataNode
    \/ TransformDataNode
    \/ FinalizeNode

SpecEntry == InitEntrySpec /\ [][NextEntry]_vars

\* a conversational chain keeping up to MaxHistory exchanges
InitChainSpec ==
    /\ InitContext /\ IdleChunker /\ IdleStore /\ IdleRerank /\ IdleRetrieval
    /\ IdleCode /\ IdleOrch /\ IdleRag /\ IdleEntry
    /\ chat_history = <<>>
    /\ max_history \in 1..MaxHistory
    /\ streaming = [open |-> FALSE, question |-> "", full_response |-> ""]

NextChain ==
    \/ Invoke
    \/ StreamBegin
    \/ StreamToken
    \/ StreamFinish
    \/ StreamAbandon
    \/ ClearHistory

SpecChain == InitChainSpec /\ [][NextChain]_vars

\* compression_ratio is the default 0.3, or 0.9
CompressionRatios == {[num |-> 3, den |-> 10], [num |-> 9, den |-> 10]}

\* the compressors as constructed, the extractive one with either ratio
InitExtractiveSpec ==
    /\ IdleCallers
    /\ \E max_sentences \in {2, 10}, compression_ratio \in CompressionRatios :
           compressors = [NewCompressors(max_sentences)
                              EXCEPT !.extractive.compression_ratio = compression_ratio]

\* the extractive compressor alone
NextExtractive ==
    ExtractiveCompress({<<PassageDoc(text, 1)>> : text \in Passages} \cup PlacedPassageLists)

SpecExtractive == InitExtractiveSpec /\ [][NextExtractive]_vars

\* the hybrid retriever alone, constructed with top_k 1 or 2
InitHybridSpec ==
    /\ InitContext /\ IdleApp /\ IdleChunker /\ IdleStore /\ IdleRerank
    /\ \E top_k \in 1..2 : retrievers = NewRetrievers(top_k, TRUE, FALSE)
    /\ ret = RetrievalReport("none", EmptyDict, "ok", <<>>, <<>>)

NextHybrid == HybridRetrieve

SpecHybrid == InitHybridSpec /\ [][NextHybrid]_vars

\* the tags get_reranker and get_compressor know
RerankerTypes == {"cross-encoder", "cohere", "llm"}

CompressorTypes == {"extractive", "llm", "embedding"}

\* the advanced retriever alone, with reranking and compression on or off and
\* with each type of reranker and compressor
InitAdvancedSpec ==
    /\ InitContext /\ IdleApp /\ IdleChunker /\ IdleStore /\ IdleRerank
    /\ \E use_reranker, use_compressor \in BOOLEAN :
           \E reranker_type \in RerankerTypes, compressor_type \in CompressorTypes :
               retrievers = [NewRetrievers(2, use_reranker, use_compressor)
                                EXCEPT !.advanced.reranker_type = reranker_type,
                                       !.advanced.compressor_type = compressor_type]
    /\ ret = RetrievalReport("none", EmptyDict, "ok", <<>>, <<>>)

NextAdvanced == AdvancedRetrieve

SpecAdvanced == InitAdvancedSpec /\ [][NextAdvanced]_vars

\* ------------------------------------------------------------------------
\* Properties
\* ------------------------------------------------------------------------

\* C1: after n add_context calls on a fresh ContextualRetriever the buffer
\* holds exactly min(n, 10) entries, and they are the min(n, 10) most
\* recently added messages in the order they were added.
C1_ContextWindow ==
    LET n == Len(added)
        m == Len(conversation_context)
    IN  /\ m = IF n < 10 THEN n ELSE 10
        /\ \A i \in 1..m : conversation_context[i] = added[n - m + i]

\* twelve turns have been added: ten are kept and the two oldest, which
\* differ from the turns that took their positions, are gone
C1_Witness ==
    /\ Len(added) = 12
    /\ Len(conversation_context) = 10
    /\ added[1] # added[3]
    /\ conversation_context[1] = added[3]

\* the records of S that carry doc_id d in their payload
RecordsOf(S, d) == {p \in S : "doc_id" \in DOMAIN p.payload /\ p.payload["doc_id"] = d}

\* C2: once delete(doc_id) has returned, no record whose payload doc_id
\* equals that doc_id remains in the store (so no later search can return
\* one), and the value returned is the number of records the document had,
\* for a document of any number of chunks.
C2_DeleteRemovesAll ==
    (last.op = "delete" /\ last.outcome = "ok") =>
        /\ RecordsOf(points, last.args.doc_id) = {}
        /\ last.result = Cardinality(RecordsOf(last.pre_points, last.args.doc_id))

\* C3: initialize() on a store whose backing collection already exists
\* does not raise (the service being reachable), does not create the
\* collection and keeps every record stored before the call, for the
\* remote and the in-memory configuration alike.
C3_InitializeIdempotent ==
    (last.op = "initialize" /\ last.pre_collection /\ last.outcome # "store_error") =>
        /\ last.outcome = "ok"
        /\ "create_collection" \notin Range(last.store_calls)
        /\ last.pre_points \subseteq points

\* C4: add, search, delete, list and count on a store on which no
\* initialize() has completed fail with the not-initialized error before
\* any embedding or store call and leave the store unchanged.
C4_NotInitialized ==
    (last.op \in {"add", "search", "delete", "list", "count"} /\ ~last.pre_init_ok) =>
        /\ last.outcome = "not_initialized"
        /\ last.embed_calls = 0
        /\ last.store_calls = <<>>
        /\ points = last.pre_points

\* C5 as claimed: for n > 0 chunks add makes one batch embedding call and
\* one upsert of n records, returns the n distinct record ids in chunk
\* order, record i carries doc_id = the argument, chunk_index = i and
\* content = the text of chunk i, and nothing is written when the
\* embedding call fails.
C5_AddRecords_Original ==
    LET documents == last.args.documents
        n == Len(documents)
    IN  (last.op = "add" /\ last.outcome # "not_initialized" /\ n > 0) =>
            /\ last.embed_calls = 1
            /\ last.outcome = "embedding_error" =>
                   last.upserts = <<>> /\ points = last.pre_points
            /\ last.outcome # "embedding_error" =>
                   /\ Len(last.upserts) = 1
                   /\ Len(last.upserts[1]) = n
                   /\ \A i \in 1..n :
                          /\ last.upserts[1][i].payload["doc_id"] = last.args.doc_id
                          /\ last.upserts[1][i].payload["chunk_index"] = i - 1
                          /\ last.upserts[1][i].payload["content"] = documents[i].page_content
            /\ last.outcome = "ok" =>
                   /\ Len(last.result) = n
                   /\ \A i \in 1..n : last.result[i] = last.upserts[1][i].id
                   /\ \A i, j \in 1..n : i # j => last.result[i] # last.result[j]
                   /\ Range(last.upserts[1]) \subseteq points

\* the value the payload of a record has under key k: the one of the
\* metadata argument, else the one of the chunk's own metadata, else base
Overlaid(k, base, doc, metadata) ==
    IF k \in DOMAIN metadata THEN metadata[k]
    ELSE IF k \in DOMAIN doc.metadata THEN doc.metadata[k]
    ELSE base

\* C5 (amended): as claimed, except that doc_id, chunk_index and content
\* of record i are the argument, i and the chunk text only where neither
\* the chunk's metadata nor the metadata argument has that key; a key they
\* have takes the value of the metadata argument, else of the chunk's
\* metadata.
C5_AddRecords ==
    LET documents == last.args.documents
        metadata == last.args.metadata
        n == Len(documents)
    IN  (last.op = "add" /\ last.outcome # "not_initialized" /\ n > 0) =>
            /\ last.embed_calls = 1
            /\ last.outcome = "embedding_error" =>
                   last.upserts = <<>> /\ points = last.pre_points
            /\ last.outcome # "embedding_error" =>
                   /\ Len(last.upserts) = 1
                   /\ Len(last.upserts[1]) = n
                   /\ \A i \in 1..n :
                          LET payload == last.upserts[1][i].payload
                          IN  /\ payload["doc_id"] =
                                     Overlaid("doc_id", last.args.doc_id,
                                              documents[i], metadata)
                              /\ payload["chunk_index"] =
                                     Overlaid("chunk_index", i - 1,
                                              documents[i], metadata)
                              /\ payload["content"] =
                                     Overlaid("content", documents[i].page_content,
                                              documents[i], metadata)
            /\ last.outcome = "ok" =>
                   /\ Len(last.result) = n
                   /\ \A i \in 1..n : last.result[i] = last.upserts[1][i].id
                   /\ \A i, j \in 1..n : i # j => last.result[i] # last.result[j]
                   /\ Range(last.upserts[1]) \subseteq points

\* the first two chunks of a loaded document were added with a filename
\* in the metadata argument, and the store now holds their two records
C5_Witness ==
    /\ last.op = "add"
    /\ last.outcome = "ok"
    /\ Len(last.args.documents) = 2
    /\ "chunk_index" \in DOMAIN last.args.documents[2].metadata
    /\ last.args.documents[2].metadata["chunk_index"] = 1
    /\ "filename" \in DOMAIN last.args.metadata
    /\ Cardinality(points) = Cardinality(last.pre_points) + 2

\* the distinct doc_id values among the records of S
StoredDocIds(S) == {p.payload["doc_id"] : p \in {q \in S : "doc_id" \in DOMAIN q.payload}}

\* C6: count() returns the number of distinct doc_id values among the
\* records currently in the store, however many records it holds.
C6_CountDistinct ==
    (last.op = "count" /\ last.outcome = "ok") =>
        last.result = Cardinality(StoredDocIds(points))

\* C7: list(limit, offset) returns the slice [offset, offset+limit) of a
\* sequence with exactly one summary per distinct stored doc_id, each with
\* chunk count equal to the number of stored records of that doc_id,
\* however many records the store holds.
C7_ListDocuments ==
    (last.op = "list" /\ last.outcome = "ok") =>
        LET D == StoredDocIds(points)
            n == Cardinality(D)
            lo == last.args.offset
            hi == IF lo + last.args.limit < n THEN lo + last.args.limit ELSE n
        IN  \E order \in {f \in [1..n -> D] : \A i, j \in 1..n : i # j => f[i] # f[j]} :
                /\ Len(last.result) = (IF hi > lo THEN hi - lo ELSE 0)
                /\ \A j \in 1..Len(last.result) :
                       /\ last.result[j].id = order[lo + j]
                       /\ last.result[j].chunks_count =
                              Cardinality(RecordsOf(points, order[lo + j]))

\* C8: a call of any reranker or compressor with an empty passage list
\* returns the empty list and is no error, and it loads no model, constructs
\* no client and makes no model, service, LLM or embedding call: the lazily
\* built members of the rerankers and compressors stay as they were.
C8_EmptyInput ==
    [][out'.args.documents = <<>> =>
          /\ out'.outcome = "ok"
          /\ out'.result = <<>>
          /\ out'.loads = 0
          /\ out'.calls = 0
          /\ UNCHANGED <<rerankers, compressors>>]_vars

\* an embedding compressor that has no embeddings client yet was called with
\* the empty list
C8_Witness ==
    /\ out.component = "embedding_compressor"
    /\ out.args.documents = <<>>
    /\ out.outcome = "ok"
    /\ ~compressors.embedding.embeddings
    /\ ~rerankers.cross_encoder.initialized

\* the rerank_score of a returned passage
RerankScore(doc) == doc.metadata["rerank_score"]

\* the positions of the input that a result of the cross-encoder returns:
\* content identifies a candidate
ReturnedPositions(documents, result) ==
    {j \in 1..Len(documents) :
        \E i \in 1..Len(result) : result[i].page_content = documents[j].page_content}

\* C9: the cross-encoder returns passages in non-increasing order of the new
\* score; each is an input passage with the score the model gave it, no
\* input is returned twice, no input left out scores more than one that is
\* returned, and a top_k of 1 or more given to the call returns
\* min(top_k, n) passages.
C9_CrossEncoderOrder ==
    (out.component = "cross_encoder" /\ out.outcome = "ok") =>
        LET documents == out.args.documents
            scores == out.args.scores
            result == out.result
            returned == ReturnedPositions(documents, result)
        IN  /\ \A i, j \in 1..Len(result) :
                   i < j => RerankScore(result[i]) >= RerankScore(result[j])
            /\ \A i \in 1..Len(result) :
                   \E j \in 1..Len(documents) :
                       /\ result[i].page_content = documents[j].page_content
                       /\ RerankScore(result[i]) = scores[j]
            /\ Cardinality(returned) = Len(result)
            /\ \A j \in 1..Len(documents) :
                   j \notin returned =>
                       \A i \in 1..Len(result) : scores[j] <= RerankScore(result[i])
            /\ out.args.top_k >= 1 =>
                   Len(result) = Min(out.args.top_k, Len(documents))

\* scores 0.9, 0.5, 0.7 for A, B, C and top_k = 2 gave A (0.9), C (0.7)
C9_Witness ==
    /\ out.component = "cross_encoder"
    /\ out.outcome = "ok"
    /\ Len(out.args.documents) = 3
    /\ out.args.scores = <<9, 5, 7>>
    /\ out.args.top_k = 2
    /\ Len(out.result) = 2
    /\ out.result[1].page_content = "A" /\ RerankScore(out.result[1]) = 9
    /\ out.result[2].page_content = "C" /\ RerankScore(out.result[2]) = 7

\* C10: for n passages the cross-encoder returns min(k, n) passages, k
\* being the top_k of the call when one is given (0 included), else the
\* configured top_k, else n.
C10_RerankCount ==
    (out.component = "cross_encoder" /\ out.outcome = "ok") =>
        LET n == Len(out.args.documents)
            top_k == out.args.top_k
            configured == rerankers.cross_encoder.top_k
            k == IF top_k # NoneInt THEN top_k
                 ELSE IF configured # NoneInt THEN configured
                 ELSE n
        IN  Len(out.result) = Min(k, n)

\* the new score of the passage at position j of the last call
NewScore(j) ==
    IF out.component = "cross_encoder" THEN out.args.scores[j]
    ELSE Normalized(LLMScore(out.args.replies[j]))

\* C11: every passage the cross-encoder or the LLM reranker returns is an
\* input passage with its content, with rerank_score = the new score and
\* original_score = the relevance_score it had on input (0 when it had
\* none), with relevance_score and every other key of its metadata as on
\* input and no further key; and the list the caller passed holds the same
\* passages after the call.
C11_RerankMetadata ==
    (out.component \in {"cross_encoder", "llm"} /\ out.outcome = "ok") =>
        LET documents == out.args.documents
            added_keys == {"rerank_score", "original_score"}
        IN  /\ out.inputs = documents
            /\ \A i \in 1..Len(out.result) :
                   \E j \in 1..Len(documents) :
                       LET before == documents[j].metadata
                           after == out.result[i].metadata
                       IN  /\ out.result[i].page_content = documents[j].page_content
                           /\ DOMAIN after = DOMAIN before \cup added_keys
                           /\ after["rerank_score"] = NewScore(j)
                           /\ after["original_score"] =
                                  (IF "relevance_score" \in DOMAIN before
                                   THEN before["relevance_score"] ELSE 0)
                           /\ \A k \in DOMAIN before \ added_keys : after[k] = before[k]

\* the LLM reranker returned a passage that came with relevance_score and with
\* the rerank_score of an earlier rerank, and gave it another score
C11_Witness ==
    /\ out.component = "llm"
    /\ out.outcome = "ok"
    /\ Len(out.args.documents) = 2
    /\ out.args.documents[2] = Rescored
    /\ \E i \in 1..Len(out.result) :
           /\ out.result[i].page_content = Rescored.page_content
           /\ out.result[i].metadata["rerank_score"] # Rescored.metadata["rerank_score"]
           /\ out.result[i].metadata["relevance_score"] = Rescored.metadata["relevance_score"]
           /\ out.result[i].metadata["original_score"] = Rescored.metadata["relevance_score"]

\* the replies of the last LLM rerank that are texts float() rejects
Unparseable(j) ==
    /\ ~out.args.replies[j].raises
    /\ ~ParsesAsFloat(out.args.replies[j].content)

\* C12: when the LLM answers for every passage of a batch, the call does
\* not raise; each returned passage carries the score of its own reply,
\* which is exactly 0.5 for a reply that is no number; and the passages
\* are all returned but for the cut to top_k (min(top_k, n) of them for a
\* top_k of 1 or more, all n when neither the call nor the reranker has a
\* top_k).
C12_UnparseableReply ==
    (/\ out.component = "llm"
     /\ out.args.documents # <<>>
     /\ out.args.replies # <<>>
     /\ \A j \in 1..Len(out.args.replies) : ~out.args.replies[j].raises) =>
        LET documents == out.args.documents
            n == Len(documents)
        IN  /\ out.outcome = "ok"
            /\ \A i \in 1..Len(out.result) :
                   \E j \in 1..n :
                       /\ out.result[i].page_content = documents[j].page_content
                       /\ Unparseable(j) => out.result[i].metadata["rerank_score"] = 5
                       /\ ~Unparseable(j) =>
                              out.result[i].metadata["rerank_score"] =
                                  Max(0, Min(10, FloatValue(out.args.replies[j].content)))
            /\ out.args.top_k >= 1 => Len(out.result) = Min(out.args.top_k, n)
            /\ (out.args.top_k = NoneInt /\ rerankers.llm.top_k = NoneInt) =>
                   Len(out.result) = n
            /\ \A i, j \in 1..Len(out.result) :
                   i # j => out.result[i].page_content # out.result[j].page_content

\* of three passages the second got the reply "not a number": the three
\* came back, the second with 0.5 between the 1.0 and the 0.3 of the others
C12_Witness ==
    /\ out.component = "llm"
    /\ out.outcome = "ok"
    /\ Len(out.args.documents) = 3
    /\ out.args.replies[1].content = " 3 "
    /\ out.args.replies[2].content = "not a number"
    /\ out.args.replies[3].content = "12"
    /\ Len(out.result) = 3
    /\ out.result[1].page_content = "C" /\ out.result[1].metadata["rerank_score"] = 10
    /\ out.result[2].page_content = "B" /\ out.result[2].metadata["rerank_score"] = 5
    /\ out.result[3].page_content = "A" /\ out.result[3].metadata["rerank_score"] = 3

\* C13: in an LLM rerank whose LLM could be built, a passage whose scoring
\* fails in any way, the LLM call raising included, gets the default score
\* 0.5 and the call returns: no failing passage aborts the batch.
C13_ScoringFailureSwallowed ==
    (/\ out.component = "llm"
     /\ out.args.documents # <<>>
     /\ Len(out.args.replies) = Len(out.args.documents)) =>
        /\ out.outcome = "ok"
        /\ \A i \in 1..Len(out.result) :
               \A j \in 1..Len(out.args.documents) :
                   (/\ out.result[i].page_content = out.args.documents[j].page_content
                    /\ out.args.replies[j].raises) =>
                       out.result[i].metadata["rerank_score"] = 5

\* C14: a rerank by the external service that returns gives, for each result
\* of the service, the input passage at the reported index with rerank_score
\* the reported relevance score; and whatever the service answered, the
\* returned list is in non-increasing rerank_score order and has at most
\* top_k entries.
C14_ServiceRerank ==
    (/\ out.component = "cohere"
     /\ out.outcome = "ok"
     /\ out.args.documents # <<>>) =>
        LET documents == out.args.documents
            results == out.args.results
        IN  /\ Len(out.result) = Len(results)
            /\ \A i \in 1..Len(out.result) :
                   /\ out.result[i].page_content = documents[results[i].index + 1].page_content
                   /\ out.result[i].metadata["rerank_score"] = results[i].relevance_score
            /\ \A i \in 1..(Len(out.result) - 1) :
                   out.result[i].metadata["rerank_score"] >= out.result[i + 1].metadata["rerank_score"]
            /\ Len(out.result) <= out.args.top_n

\* the place of a text in the answer of the store, and of a passage in the
\* list given to a reranker
HitPosition(semantic_results, content) ==
    CHOOSE j \in 1..Len(semantic_results) : semantic_results[j].content = content

DocPosition(documents, content) ==
    CHOOSE j \in 1..Len(documents) : documents[j].page_content = content

\* C15: two passages of equal score come out of the hybrid retriever, the
\* cross-encoder reranker and the LLM reranker in the relative order they
\* had in the input of the stage.
C15_StableTies ==
    /\ (ret.retriever = "hybrid" /\ ret.outcome = "ok") =>
           \A i, j \in 1..Len(ret.result) :
               (/\ i < j
                /\ ret.result[i].metadata["relevance_score"] = ret.result[j].metadata["relevance_score"]) =>
                   HitPosition(ret.args.semantic_results, ret.result[i].page_content)
                       < HitPosition(ret.args.semantic_results, ret.result[j].page_content)
    /\ (out.component \in {"cross_encoder", "llm"} /\ out.outcome = "ok") =>
           \A i, j \in 1..Len(out.result) :
               (/\ i < j
                /\ out.result[i].metadata["rerank_score"] = out.result[j].metadata["rerank_score"]) =>
                   DocPosition(out.args.documents, out.result[i].page_content)
                       < DocPosition(out.args.documents, out.result[j].page_content)

\* C16: a hybrid retrieve asks the store once, for 2 x top_k candidates of
\* the query; it returns at most top_k passages in non-increasing order of
\* relevance_score, and the relevance_score of each is semantic_weight x
\* the semantic score of its candidate + keyword_weight x the share of
\* the distinct lower-cased query terms found among the candidate's terms
\* (0 for a query without terms). Both sides are in units of
\* 1/(100 x max(number of query terms, 1)).
C16_HybridScore ==
    ret.retriever = "hybrid" =>
        LET self == retrievers.hybrid
            query_terms == Terms(ret.args.query)
            total == Cardinality(query_terms)
        IN  /\ ret.calls = <<[target |-> "search", query |-> ret.args.query,
                              top_k |-> 2 * self.top_k]>>
            /\ ret.outcome = "ok" =>
                   /\ Len(ret.result) <= self.top_k
                   /\ \A i \in 1..(Len(ret.result) - 1) :
                          ret.result[i].metadata["relevance_score"]
                              >= ret.result[i + 1].metadata["relevance_score"]
                   /\ \A i \in 1..Len(ret.result) :
                          \E j \in 1..Len(ret.args.semantic_results) :
                              LET candidate == ret.args.semantic_results[j]
                                  present == Cardinality({t \in query_terms :
                                                             t \in Terms(candidate.content)})
                              IN  /\ candidate.content = ret.result[i].page_content
                                  /\ ret.result[i].metadata["relevance_score"]
                                         = IF total = 0
                                           THEN self.semantic_weight * candidate.score
                                           ELSE self.semantic_weight * candidate.score * total
                                                    + self.keyword_weight * 10 * present

\* a query with one of its two terms in S1 and S3 and none in S2: of three
\* candidates the two best by combined score come back, S1 ahead of S2
\* although the store ranked S2 first
C16_Witness ==
    /\ ret.retriever = "hybrid"
    /\ ret.outcome = "ok"
    /\ retrievers.hybrid.top_k = 2
    /\ ret.args.query = "qdrant vectors"
    /\ Len(ret.args.semantic_results) = 3
    /\ ret.args.semantic_results[1].content = S2
    /\ ret.args.semantic_results[1].score = 9
    /\ ret.args.semantic_results[2].content = S1
    /\ ret.args.semantic_results[2].score = 9
    /\ ret.args.semantic_results[3].content = S3
    /\ ret.args.semantic_results[3].score = 5
    /\ Len(ret.result) = 2
    /\ ret.result[1].page_content = S1
    /\ ret.result[1].metadata["relevance_score"] = 156
    /\ ret.result[2].page_content = S2
    /\ ret.result[2].metadata["relevance_score"] = 126

\* (doc_id, chunk_index) of a returned passage
DocKey(doc) == <<Get(doc.metadata, "doc_id", ""), Get(doc.metadata, "chunk_index", 0)>>

\* C17: the hybrid retriever returns no two passages of one
\* (doc_id, chunk_index), and a returned passage is, among the candidates of
\* its (doc_id, chunk_index), one of the highest combined score.
C17_HybridDedup ==
    (ret.retriever = "hybrid" /\ ret.outcome = "ok") =>
        LET self == retrievers.hybrid
            query == ret.args.query
            candidates == ret.args.semantic_results
        IN  /\ \A i, j \in 1..Len(ret.result) :
                   i # j => DocKey(ret.result[i]) # DocKey(ret.result[j])
            /\ \A i \in 1..Len(ret.result) :
                   \A j \in 1..Len(candidates) :
                       HybridKey(candidates[j]) = DocKey(ret.result[i]) =>
                           ret.result[i].metadata["relevance_score"]
                               >= CombinedScore(self, query, candidates[j])

\* keyword weights to choose from, in tenths: the default, 1.0 and 10.0
KeywordWeights == {3, 10, 100}

\* the hybrid retriever with keyword_weight kw does not return the text y
\* unless it returns the text x ahead of it
RanksBefore(self, kw, query, semantic_results, x, y) ==
    LET documents == HybridDocuments([self EXCEPT !.keyword_weight = kw],
                                     query, semantic_results)
    IN  \A j \in 1..Len(documents) :
            documents[j].page_content = y =>
                \E i \in 1..(j - 1) : documents[i].page_content = x

\* C18: when the store answers a query that has terms with candidates X and
\* Y, every query term among X's terms and none among Y's, X of lower
\* semantic score than Y, then for some keyword_weight (semantic_weight as
\* it is) the hybrid retriever ranks X before Y.
C18_KeywordWeightShiftsRank ==
    (ret.retriever = "hybrid" /\ ret.outcome = "ok") =>
        LET query == ret.args.query
            candidates == ret.args.semantic_results
        IN  \A x, y \in 1..Len(candidates) :
                (/\ Terms(query) # {}
                 /\ Terms(query) \subseteq Terms(candidates[x].content)
                 /\ Terms(query) \cap Terms(candidates[y].content) = {}
                 /\ candidates[x].score < candidates[y].score) =>
                    \E kw \in KeywordWeights :
                        RanksBefore(retrievers.hybrid, kw, query, candidates,
                                    candidates[x].content, candidates[y].content)

\* the context entries and the query as one string: the entries in order,
\* a single space after each, then the query
RECURSIVE Prefixed(_, _)
Prefixed(entries, query) ==
    IF entries = <<>> THEN query
    ELSE Head(entries) \o " " \o Prefixed(Tail(entries), query)

\* C19: whatever was added before, a retrieve of the contextual retriever
\* calls the base retriever once, with the three most recently added entries
\* (all of them if fewer) joined by single spaces, a space and the query, and
\* with the query alone when nothing was added; it leaves the context
\* buffer as it was.
C19_EnhancedQuery ==
    [][ContextualRetrieve =>
          LET n == Len(added)
              recent == SubSeq(added, Max(1, n - 2), n)
          IN  /\ ret'.retriever = "contextual"
              /\ ret'.calls = <<[target |-> "base_retriever",
                                 query |-> Prefixed(recent, ret'.args.query)]>>
              /\ n = 0 => ret'.calls[1].query = ret'.args.query
              /\ UNCHANGED <<conversation_context, added>>]_vars

\* eleven messages were added, the last three m1, m2, m2, and the base
\* retriever was asked for "m1 m2 m2 what now"
C19_Witness ==
    /\ Len(added) = 11
    /\ Len(conversation_context) = CONTEXT_LIMIT
    /\ SubSeq(added, 9, 11) = <<"m1", "m2", "m2">>
    /\ added[1] = "m2"
    /\ ret.retriever = "contextual"
    /\ ret.args.query = "what now"
    /\ ret.calls[1].query = "m1 m2 m2 what now"

\* C20: an advanced retrieve searches first, once, for initial_k candidates
\* when reranking is enabled and for top_k otherwise, and runs no stage
\* twice nor out of the order search, rerank, compress. When the search
\* answers with candidates, the rerank, if enabled, runs and gets the
\* search output; the compress, if enabled, gets the rerank output, or the
\* search output when reranking is disabled; a stage that is disabled does
\* not run. With both disabled, or with an empty search output, the search
\* output is returned as it is.
C20_StageOrder ==
    ret.retriever = "advanced" =>
        LET self == retrievers.advanced
            calls == ret.calls
            stages == [j \in 1..Len(calls) |-> calls[j].target]
            searched == RetrievedDocs(ret.args.results)
            answered == ret.args.fail # "search"
        IN  /\ stages \in {<<"search">>, <<"search", "rerank">>,
                           <<"search", "compress">>,
                           <<"search", "rerank", "compress">>}
            /\ calls[1] = [target |-> "search", query |-> ret.args.query,
                           top_k |-> IF self.use_reranker THEN self.initial_k
                                     ELSE self.top_k]
            /\ (answered /\ self.use_reranker /\ searched # <<>>) =>
                   /\ Len(calls) >= 2
                   /\ calls[2] = [target |-> "rerank", query |-> ret.args.query,
                                  documents |-> searched, top_k |-> self.top_k]
            /\ ~self.use_reranker => \A j \in 1..Len(calls) : stages[j] # "rerank"
            /\ ~self.use_compressor => \A j \in 1..Len(calls) : stages[j] # "compress"
            /\ (answered /\ self.use_compressor /\ ~self.use_reranker /\ searched # <<>>) =>
                   calls = <<calls[1], [target |-> "compress", query |-> ret.args.query,
                                        documents |-> searched]>>
            /\ (answered /\ self.use_compressor /\ self.use_reranker /\ searched # <<>>
                    /\ ret.args.reranked # <<>>) =>
                   /\ Len(calls) = 3
                   /\ calls[3] = [target |-> "compress", query |-> ret.args.query,
                                  documents |-> ret.args.reranked]
            /\ (answered /\ ((~self.use_reranker /\ ~self.use_compressor) \/ searched = <<>>)) =>
                   /\ ret.outcome = "ok"
                   /\ ret.result = searched
                   /\ stages = <<"search">>

\* C21: an advanced retrieve with reranking enabled whose search answers at
\* least one candidate returns, whichever the reranker type: at most top_k
\* passages, each with a rerank_score, in non-increasing rerank_score order.
C21_RerankedRetrieve ==
    (/\ ret.retriever = "advanced"
     /\ retrievers.advanced.use_reranker
     /\ retrievers.advanced.reranker_type \in RerankerTypes
     /\ ret.args.fail = "none"
     /\ ret.args.results # <<>>) =>
        /\ ret.outcome = "ok"
        /\ Len(ret.result) <= retrievers.advanced.top_k
        /\ \A i \in 1..Len(ret.result) : "rerank_score" \in DOMAIN ret.result[i].metadata
        /\ \A i \in 1..(Len(ret.result) - 1) :
               ret.result[i].metadata["rerank_score"]
                   >= ret.result[i + 1].metadata["rerank_score"]

\* C22: a retrieve of the advanced retriever that follows a retrieve which
\* constructed a reranker, a compressor or a client of theirs constructs
\* none of these again.
C22_BuiltOnce ==
    [][(/\ ret.retriever = "advanced"
        /\ ret'.retriever = "advanced"
        /\ ret' # ret) =>
           \A i \in 1..Len(ret.built) : \A j \in 1..Len(ret'.built) :
               ret.built[i] # ret'.built[j]]_vars

\* the reply of the LLM is the irrelevance sentinel
IsSentinel(reply) == ~reply.raises /\ Upper(Strip(reply.content)) = "NOT_RELEVANT"

\* C23: an LLM compression that returns gives, in input order, the passages
\* whose reply is not the sentinel and no other: a passage whose LLM call
\* failed as it was given, every other one with the reply, stripped, as its
\* content; never more passages than it was given.
C23_LLMCompress ==
    (/\ out.component = "llm_compressor"
     /\ out.outcome = "ok"
     /\ out.args.documents # <<>>) =>
        LET documents == out.args.documents
            replies == out.args.replies
            kept == PlacesKept(Len(documents),
                               {j \in 1..Len(documents) : ~IsSentinel(replies[j])})
        IN  /\ Len(out.result) = Len(kept)
            /\ Len(out.result) <= Len(documents)
            /\ \A m \in 1..Len(kept) :
                   IF replies[kept[m]].raises
                   THEN out.result[m] = documents[kept[m]]
                   ELSE /\ out.result[m].page_content = <<Strip(replies[kept[m]].content)>>
                        /\ out.result[m].metadata["chunk_index"]
                               = documents[kept[m]].metadata["chunk_index"]

\* of three passages the first was answered with the sentinel in lower case
\* between blanks, the LLM call of the second failed, the third was answered
\* with a sentence: the second comes back as given, then the third with the
\* sentence
C23_Witness ==
    /\ out.component = "llm_compressor"
    /\ out.outcome = "ok"
    /\ Len(out.args.documents) = 3
    /\ out.args.replies = <<[raises |-> FALSE, content |-> " not_relevant "],
                            [raises |-> TRUE, content |-> ""],
                            [raises |-> FALSE, content |-> " It is fast. "]>>
    /\ Len(out.result) = 2
    /\ out.result[1] = out.args.documents[2]
    /\ out.result[2].page_content = <<S2>>
    /\ out.result[2].metadata["chunk_index"] = 2

\* the sentences of passage j of the last call that reach the threshold
Qualifying(j) ==
    AboveThreshold(SplitSentences(out.args.documents[j].page_content), out.args.sim,
                   compressors.embedding.similarity_threshold)

\* C24: an embedding compression that returns gives one passage per passage it
\* was given, in the order given, and a passage none of whose sentences
\* reaches the threshold, one without sentences included, as it was given.
C24_OnePerPassage ==
    (out.component = "embedding_compressor" /\ out.outcome = "ok" /\ out.args.documents # <<>>) =>
        /\ Len(out.result) = Len(out.args.documents)
        /\ \A j \in 1..Len(out.result) :
               /\ out.result[j].metadata["chunk_index"]
                      = out.args.documents[j].metadata["chunk_index"]
               /\ Qualifying(j) = <<>> => out.result[j] = out.args.documents[j]

\* the number of places of the sequence seq that hold x
Count(seq, x) == Cardinality({i \in 1..Len(seq) : seq[i] = x})

\* C25: a passage with a sentence at or above the threshold comes back with at
\* most max_sentences sentences as its content, all of them at or above the
\* threshold, none of them below a qualifying sentence left out, in
\* non-increasing order of similarity; kept_sentences counts them and
\* total_sentences the sentences of the passage.
C25_TopSentences ==
    (out.component = "embedding_compressor" /\ out.outcome = "ok") =>
        \A j \in 1..Len(out.args.documents) :
            Qualifying(j) # <<>> =>
                \E m \in 1..Len(out.result) :
                    LET doc == out.args.documents[j]
                        sim == out.args.sim
                        self == compressors.embedding
                        sentences == SplitSentences(doc.page_content)
                        kept == out.result[m].page_content
                    IN  /\ out.result[m].metadata["chunk_index"] = doc.metadata["chunk_index"]
                        /\ Len(kept) >= 1
                        /\ Len(kept) <= self.max_sentences
                        /\ Len(kept) = Min(self.max_sentences, Len(Qualifying(j)))
                        /\ \A i \in 1..Len(kept) :
                               /\ sim[kept[i]] >= self.similarity_threshold
                               /\ Count(kept, kept[i]) <= Count(sentences, kept[i])
                        /\ \A i \in 1..(Len(kept) - 1) : sim[kept[i]] >= sim[kept[i + 1]]
                        /\ \A i \in 1..Len(sentences) :
                               Count(kept, sentences[i]) < Count(sentences, sentences[i])
                                   => sim[sentences[i]] <= sim[kept[Len(kept)]]
                        /\ out.result[m].metadata["kept_sentences"] = Len(kept)
                        /\ out.result[m].metadata["total_sentences"] = Len(sentences)

\* max_sentences is 2 and the three sentences of a passage all qualify, the
\* last of them with the highest similarity: the last one comes first in the
\* content and the second one is left out
C25_Witness ==
    /\ out.component = "embedding_compressor"
    /\ out.outcome = "ok"
    /\ compressors.embedding.max_sentences = 2
    /\ Len(out.args.documents) = 1
    /\ out.args.documents[1].page_content = <<S1, S2, S3>>
    /\ out.args.sim[S1] = 7 /\ out.args.sim[S2] = 7 /\ out.args.sim[S3] = 9
    /\ Len(out.result) = 1
    /\ out.result[1].page_content = <<S3, S1>>
    /\ out.result[1].metadata["kept_sentences"] = 2
    /\ out.result[1].metadata["total_sentences"] = 3

\* round(a / d) for a >= 0 and d > 0, a tie going to the even neighbour
Round(a, d) ==
    LET q == a \div d
        r == a % d
    IN  IF 2 * r < d THEN q
        ELSE IF 2 * r > d THEN q + 1
        ELSE IF q % 2 = 0 THEN q ELSE q + 1

\* the sentences of passage j of the last call
SentencesOf(j) == SplitSentences(out.args.documents[j].page_content)

\* passage j of the last extractive call has more than min_sentences sentences
Compressible(j) == Len(SentencesOf(j)) > compressors.extractive.min_sentences

\* C26: of a passage with n > min_sentences sentences the extractive
\* compressor keeps min(n, max(min_sentences, min(max_sentences,
\* round(n * compression_ratio)))) sentences.
C26_RoundedTarget ==
    out.component = "extractive_compressor" =>
        \A j \in 1..Len(out.args.documents) :
            Compressible(j) =>
                LET self == compressors.extractive
                    n == Len(SentencesOf(j))
                IN  Len(out.result[j].page_content)
                        = Min(n, Max(self.min_sentences,
                                     Min(self.max_sentences,
                                         Round(n * self.compression_ratio.num,
                                               self.compression_ratio.den))))

\* C27: the content of a compressed passage is made of the sentences at some
\* places of the passage, in the order of the places, and no sentence at
\* another place scores higher than one of them.
C27_OriginalOrder ==
    out.component = "extractive_compressor" =>
        \A j \in 1..Len(out.args.documents) :
            Compressible(j) =>
                LET sentences == SentencesOf(j)
                    n == Len(sentences)
                    score(i) == ScoreSentence(sentences[i], i - 1, n, Terms(out.args.query))
                IN  \E places \in SUBSET (1..n) :
                        /\ out.result[j].page_content = AtPlaces(sentences, places)
                        /\ \A i \in places : \A k \in (1..n) \ places : score(k) <= score(i)

\* C28: the extractive compressor returns one passage per passage given, in
\* the order given; one with more than min_sentences sentences with a content
\* no longer than the original, any other as it was given.
C28_NeverLonger ==
    out.component = "extractive_compressor" =>
        /\ out.outcome = "ok"
        /\ Len(out.result) = Len(out.args.documents)
        /\ \A j \in 1..Len(out.args.documents) :
               /\ out.result[j].metadata["chunk_index"]
                      = out.args.documents[j].metadata["chunk_index"]
               /\ IF Compressible(j)
                  THEN TextLen(out.result[j].page_content)
                           <= TextLen(out.args.documents[j].page_content)
                  ELSE out.result[j] = out.args.documents[j]

\* three passages: two sentences, which is min_sentences, come back as given,
\* a blank text comes back as given, three sentences come back as two and
\* shorter
C28_Witness ==
    /\ out.component = "extractive_compressor"
    /\ Len(out.args.documents) = 3
    /\ Len(SentencesOf(1)) = compressors.extractive.min_sentences
    /\ out.result[1] = out.args.documents[1]
    /\ SentencesOf(2) = <<>>
    /\ out.result[2] = out.args.documents[2]
    /\ Len(SentencesOf(3)) = 3
    /\ Len(out.result[3].page_content) = 2
    /\ TextLen(out.result[3].page_content) < TextLen(out.args.documents[3].page_content)

\* the last call was a compression that returned
Compressed ==
    /\ out.component \in {"llm_compressor", "embedding_compressor", "extractive_compressor"}
    /\ out.outcome = "ok"

\* the place in the input of the passage returned at place m
PlaceOf(m) ==
    CHOOSE j \in 1..Len(out.args.documents) :
        out.args.documents[j].metadata["chunk_index"] = out.result[m].metadata["chunk_index"]

\* the passage returned at place m carries the three compression fields
Stamped(m) ==
    LET metadata == out.result[m].metadata
    IN  /\ {"compressed", "original_length", "compressed_length"} \subseteq DOMAIN metadata
        /\ metadata["compressed"] = TRUE
        /\ metadata["original_length"] = TextLen(out.args.documents[PlaceOf(m)].page_content)
        /\ metadata["compressed_length"] = TextLen(out.result[m].page_content)

\* C29 as stated: every passage a compressor returns carries compressed =
\* true, the length of the content of its input passage as original_length and
\* the length of its own content as compressed_length.
C29_AllStamped ==
    Compressed => \A m \in 1..Len(out.result) : Stamped(m)

\* the compressor kept passage j of the input as it was given: its LLM call
\* failed, none of its sentences reached the threshold, or it has at most
\* min_sentences sentences
KeptAsGiven(j) ==
    CASE out.component = "llm_compressor" -> out.args.replies[j].raises
      [] out.component = "embedding_compressor" -> Qualifying(j) = <<>>
      [] OTHER -> ~Compressible(j)

\* C29, amended: a passage a compressor returns is either the input passage
\* as it was given, without the compression fields, when the compressor kept
\* it as given, or else carries compressed = true, original_length and
\* compressed_length.
C29_StampedUnlessGiven ==
    Compressed =>
        \A m \in 1..Len(out.result) :
            IF KeptAsGiven(PlaceOf(m))
            THEN out.result[m] = out.args.documents[PlaceOf(m)]
            ELSE Stamped(m)

\* of three passages given to the embedding compressor no sentence of the
\* first reaches the threshold, the second is blank and one sentence of the
\* third is above the threshold: the first comes back without the fields, the
\* third with them
C29_Witness ==
    /\ out.component = "embedding_compressor"
    /\ out.outcome = "ok"
    /\ Len(out.args.documents) = 3
    /\ Qualifying(1) = <<>>
    /\ Len(Qualifying(3)) = 1
    /\ Len(out.result) = 2
    /\ out.result[1] = out.args.documents[1]
    /\ "compressed" \notin DOMAIN out.result[1].metadata
    /\ out.result[2].page_content = <<S2>>
    /\ out.result[2].metadata["compressed"] = TRUE
    /\ out.result[2].metadata["original_length"] = 57
    /\ out.result[2].metadata["compressed_length"] = 11

\* C30: split_text returns no chunk for an empty text or one of blanks and
\* line breaks only, and for a text whose cleaned form is not empty and
\* shorter than chunk_size exactly one chunk, the cleaned text.
C30_ShortText ==
    chunked.op = "split_text" =>
        /\ StripChars(input_text) = <<>> => chunked.result = <<>>
        /\ (CleanText(input_text) # <<>> /\ Len(CleanText(input_text)) < chunker.chunk_size)
               => chunked.result = <<CleanText(input_text)>>

\* the text t has no two blanks in a row, no three line breaks in a row, no
\* control character and no line that starts or ends with a blank
CleanForm(t) ==
    /\ \A i \in 1..(Len(t) - 1) : ~(t[i] = " " /\ t[i + 1] = " ")
    /\ \A i \in 1..(Len(t) - 2) : ~(t[i] = "\n" /\ t[i + 1] = "\n" /\ t[i + 2] = "\n")
    /\ \A i \in 1..Len(t) : t[i] # "^"
    /\ \A i \in 1..Len(t) :
           t[i] = " " => /\ i > 1 /\ t[i - 1] # "\n"
                         /\ i < Len(t) /\ t[i + 1] # "\n"

\* C31: what _clean_text returns is normalized, and _clean_text of what
\* _clean_text returned is that text again.
C31_CleanText ==
    [][(chunked'.op = "_clean_text" /\ chunked' # chunked) =>
           /\ CleanForm(chunked'.result)
           /\ (chunked.op = "_clean_text" /\ chunked'.arg = chunked.result)
                  => chunked'.result = chunked'.arg]_vars

\* C33: every character of the cleaned text that is not a blank or a line
\* break occurs in a chunk split_text returns for a text that is not empty.
C33_ChunkCoverage ==
    (chunked.op = "split_text" /\ chunked.arg # <<>>) =>
        LET cleaned == CleanText(chunked.arg)
        IN  \A i \in 1..Len(cleaned) :
                ~IsSpace(cleaned[i]) =>
                    \E m \in 1..Len(chunked.result) :
                        \E k \in 1..Len(chunked.result[m]) :
                            chunked.result[m][k] = cleaned[i]

\* C32: a chunk of _split_by_lines is at most chunk_size long unless it is
\* one line that is longer than chunk_size by itself.
C32_ChunkSizeBound ==
    code_chunked.op = "_split_by_lines" =>
        \A m \in 1..Len(code_chunked.result) :
            LET chunk == code_chunked.result[m]
            IN  \/ Len(chunk.text) <= code_chunker.chunk_size
                \/ Len(chunk.lines) = 1 /\ Len(chunk.lines[1]) > code_chunker.chunk_size

\* C34: when the agent run selected raises, run returns a failure result
\* with the message as error, no answer, no sources and routed_to; when the
\* agent returns, run returns the agent's result with routed_to set.
C34_RunHandlesException ==
    (orch_out.op = "run" /\ orch_out.calls # <<>>) =>
        LET outcome == workflow[1].outcome
            routed == orch_out.calls[1].agent_type
        IN  /\ ~orch_out.raised
            /\ IF outcome.raises
               THEN orch_out.result
                        = AgentResult("", FALSE, outcome.message, [routed_to |-> routed])
               ELSE /\ orch_out.result.answer = outcome.result.answer
                    /\ orch_out.result.sources = outcome.result.sources
                    /\ orch_out.result.success = outcome.result.success
                    /\ orch_out.result.error = outcome.result.error
                    /\ orch_out.result.metadata["routed_to"] = routed

\* run was given no agent type, the router named the research agent with
\* blanks around and a capital, and the agent raised
C34_Witness ==
    /\ orch_out.op = "run"
    /\ orch_out.agent_type = NoneStr
    /\ orch_out.calls # <<>>
    /\ orch_out.calls[1].agent_type = "research"
    /\ workflow[1].outcome.raises
    /\ ~orch_out.raised
    /\ ~orch_out.result.success
    /\ orch_out.result.error = "Agent failed"
    /\ orch_out.result.metadata["routed_to"] = "research"

\* the agent of step k of the workflow raises or hands back a failure
StepFails(k) ==
    workflow[k].outcome.raises \/ ~workflow[k].outcome.result.success

\* the answer in the result of step k
StepAnswer(k) ==
    IF workflow[k].outcome.raises THEN "" ELSE workflow[k].outcome.result.answer

\* C35: run_workflow runs the steps in list order and, when it returns, gives
\* one result per step run, numbered from 1 in workflow_step; the last step
\* run is the first failing one with stop_on_failure, or else the last of
\* the list; a step with use_previous gets the answer of the step before it
\* appended to its request exactly when that answer is not empty.
C35_WorkflowOrder ==
    orch_out.op = "run_workflow" =>
        LET calls == orch_out.calls
            stops == {k \in 1..Len(workflow) : StepFails(k) /\ workflow[k].stop_on_failure}
        IN  /\ Len(calls) <= Len(workflow)
            /\ \A k \in 1..Len(calls) :
                   /\ calls[k].agent_type = workflow[k].agent_type
                   /\ \A j \in 1..(k - 1) : j \notin stops
                   /\ calls[k].request
                          = IF workflow[k].use_previous /\ k > 1 /\ StepAnswer(k - 1) # ""
                            THEN workflow[k].request \o "\n\nContext from previous step:\n"
                                     \o StepAnswer(k - 1)
                            ELSE workflow[k].request
            /\ ~orch_out.raised =>
                   /\ Len(orch_out.result) = Len(calls)
                   /\ \A k \in 1..Len(calls) :
                          /\ orch_out.result[k].metadata["workflow_step"] = k
                          /\ orch_out.result[k].success = ~StepFails(k)
                          /\ orch_out.result[k].answer = StepAnswer(k)
                   /\ Len(calls) = IF stops = {} THEN Len(workflow)
                                   ELSE CHOOSE k \in stops : \A j \in stops : k <= j

\* the first of two steps hands back a failure with an answer and does not
\* stop the workflow; the second, with use_previous, is run with the answer
\* appended to its request
C35_Witness ==
    /\ orch_out.op = "run_workflow"
    /\ ~orch_out.raised
    /\ Len(workflow) = 2
    /\ StepFails(1) /\ ~workflow[1].stop_on_failure /\ StepAnswer(1) = "partial"
    /\ workflow[2].use_previous
    /\ Len(orch_out.result) = 2
    /\ orch_out.calls[2].request = "Step\n\nContext from previous step:\npartial"
    /\ orch_out.result[2].metadata["workflow_step"] = 2

\* C36: in a run of the RAG agent graph at most max_iterations retrieve,
\* generate and refine nodes are run, whatever the router LLM replies; the
\* route node reached after max_iterations of them selects done and the
\* graph goes to its end; and every run that was started comes to a stop
C36_RagTerminates ==
    /\ [](rag_executed <= rag_config.max_iterations)
    /\ [][(rag_node = "route" /\ rag_executed = rag_config.max_iterations) =>
              (rag_state'.next_action = "done" /\ rag_node' = "end")]_vars
    /\ [](rag_node # "idle" => <>(rag_node \in {"end", "raised"}))

\* a run that refined its answer up to the limit and was ended by the route node
C36_Witness ==
    /\ rag_node = "end"
    /\ rag_config.max_iterations = MaxIterations
    /\ rag_executed = rag_config.max_iterations
    /\ rag_state.answer = "refined"
    /\ rag_state.next_action = "done"

\* C37: the next_action written by the route node always has an edge that
\* leaves route: retrieve, generate, refine, done or error
C37_NextActionHasEdge ==
    rag_state.next_action # "" => rag_state.next_action \in DOMAIN RouteEdges

\* C38: in a run of the data-entry agent the extract_data node is run at
\* most 3 times
C38_ExtractBounded ==
    entry_extracts <= 3

\* C39: the chat history of a conversational chain never holds more than
\* 2 * max_history messages
C39_HistoryBounded ==
    Len(chat_history) <= 2 * max_history

====
